---- MODULE Spec2Model ----
(***************************************************************************)
(* A model of the VOICEVOX project -> SRT subtitle converters:             *)
(*   src/voicevox-srt-nsg.py                      (phoneme-level assembler) *)
(*   src/nsg-customized/voicevox_srt_generator.py (frame-based generator)   *)
(*   src/nsg-customized/gen-srt-from-vvproj.py    (emotion-aware generator) *)
(*   src/voicevox-srt.py                          (the original converter)  *)
(*                                                                         *)
(* Strings are sequences of one-character strings.  The characters that    *)
(* the code tells apart are kept apart:                                    *)
(*   "k"  a Japanese character that is neither punctuation nor ASCII       *)
(*   "p"  a Japanese particle character (a token MeCab tags as a particle) *)
(*   "x"  an ASCII letter                                                  *)
(*   ","  the Japanese comma  (U+3001)     "."  the Japanese period (U+3002)*)
(*   "!"  the full-width exclamation mark  "?"  the full-width question mark*)
(*   " "  a blank                          "\n" a line break               *)
(* Times of the phoneme-level assembler are integers in milliseconds; the  *)
(* frame-based generator counts frames (93.75 frames per second, i.e.      *)
(* 3 frames per 32 ms) and formats times to whole milliseconds.            *)
(* Float sums are modelled exactly: a sum the floats put just below a     *)
(* whole millisecond is that whole millisecond here.                       *)
(***************************************************************************)
EXTENDS Integers, Sequences, FiniteSets, TLC

VARIABLES
    tagger,            \* the process-wide tokenizer: "none", "char" or "word"
    max_chars,         \* maximum characters per line
    max_lines,         \* maximum lines per cue
    pc,                \* position of the running function
    \* --- one segmentation call ---
    text,              \* the text being segmented
    lines,             \* smart_split_text(text, max_chars)
    line_chunks,       \* split_lines_by_max_lines(lines, max_lines)
    segments,          \* AdvancedSegmentSplitter.split_text_smart(text, ...)
    \* --- one duration calculation ---
    query,             \* the AudioQuery
    processed_moras,   \* the mora list after the processing pipeline
    frame_per_mora,    \* the frame counts of the processed moras
    duration,          \* calculate_accurate_duration(query), in frames
    query_data,        \* the "query" object of a record, as read from the project file
    \* --- one conversion run ---
    prog,              \* "nsg": convert_vvproj_to_srt_with_perfect_timing, "gen": generate_srt
    audio_keys,        \* talk.audioKeys, the ordering list
    audio_items,       \* talk.audioItems, key -> record
    keys_type,         \* the JSON type of talk.audioKeys: "list", "dict" or "absent"
    items_type,        \* the JSON type of talk.audioItems: "dict", "list" or "absent"
    item_order,        \* the keys of talk.audioItems in file order
    key_i,             \* index of the next key of audio_keys
    all_subtitles,     \* nsg: the cue list
    global_start_time, \* nsg: the utterance-level cursor (ms)
    srt_entries,       \* gen: the SRTEntry list
    current_time,      \* gen: the running time (frames)
    \* --- one call of a timecode formatter ---
    time_in,           \* the time to format, in tenths of a millisecond
    timecode,          \* the formatted time <<hh, mm, ss, mmm>>
    \* --- one alignment of a text with its phoneme data ---
    utt_text,          \* the text of the utterance
    utt_phrases,       \* its accent phrases
    unit_list,         \* mora_list: the durations of the units
    position_index,    \* text_to_mora_indices: text offset -> unit position
    chunk_texts,       \* the chunk texts to look up, in order
    chunk_durations,   \* what calculate_chunk_precise_duration returns for each
    \* --- one call of split_long_segment, iteration by iteration ---
    remaining_text,    \* remaining
    result_pieces,     \* result
    \* --- a second duration calculation on the same AudioQuery object ---
    second_duration    \* what the second call returns, in frames

vars == <<tagger, max_chars, max_lines, pc, text, lines, line_chunks, segments,
          query, processed_moras, frame_per_mora, duration, query_data,
          prog, audio_keys, audio_items, keys_type, items_type, item_order, key_i,
          all_subtitles, global_start_time, srt_entries, current_time,
          time_in, timecode,
          utt_text, utt_phrases, unit_list, position_index, chunk_texts, chunk_durations,
          remaining_text, result_pieces, second_duration>>

segVars == <<text, lines, line_chunks, segments>>
durVars == <<query, processed_moras, frame_per_mora, duration, query_data>>
inVars == <<keys_type, items_type, item_order>>
fmtVars == <<time_in, timecode>>
alignVars == <<utt_text, utt_phrases, unit_list, position_index, chunk_texts, chunk_durations>>
splitVars == <<remaining_text, result_pieces>>
repeatVars == <<second_duration>>
runVars == <<prog, audio_keys, audio_items, keys_type, items_type, item_order, key_i,
             all_subtitles, global_start_time, srt_entries, current_time>>

----------------------------------------------------------------------------
(* Sequence helpers *)

RECURSIVE Flatten(_)
Flatten(ss) == IF ss = <<>> THEN <<>> ELSE Head(ss) \o Flatten(Tail(ss))

RECURSIVE SumSeq(_)
SumSeq(s) == IF s = <<>> THEN 0 ELSE Head(s) + SumSeq(Tail(s))

Min(a, b) == IF a < b THEN a ELSE b

\* None, a missing key or an absent Optional value, is the empty tuple
None == <<>>

\* Python s[:n] and s[n:] for 0 <= n
Take(s, n) == SubSeq(s, 1, Min(n, Len(s)))
Drop(s, n) == SubSeq(s, Min(n, Len(s)) + 1, Len(s))

\* str.isspace for the characters of the model
IsSpace(c) == c \in {" ", "\n"}

RECURSIVE LStrip(_)
LStrip(s) == IF s # <<>> /\ IsSpace(Head(s)) THEN LStrip(Tail(s)) ELSE s

RECURSIVE RStrip(_)
RStrip(s) == IF s # <<>> /\ IsSpace(s[Len(s)]) THEN RStrip(SubSeq(s, 1, Len(s) - 1)) ELSE s

Strip(s) == LStrip(RStrip(s))

\* str.split(): the maximal runs of non-blank characters
RECURSIVE PySplitLoop(_, _, _)
PySplitLoop(s, cur, acc) ==
    IF s = <<>> THEN (IF cur = <<>> THEN acc ELSE Append(acc, cur))
    ELSE IF IsSpace(Head(s))
         THEN PySplitLoop(Tail(s), <<>>, IF cur = <<>> THEN acc ELSE Append(acc, cur))
         ELSE PySplitLoop(Tail(s), Append(cur, Head(s)), acc)

PySplit(s) == PySplitLoop(s, <<>>, <<>>)

----------------------------------------------------------------------------
(* The tokenizer capability (fugashi GenericTagger) *)

IsWordChar(c) == c \in {"k", "x"}

\* "word": punctuation, particles and blanks are tokens of their own, the other
\* characters pair up into tokens of at most WordLen characters
WordLen == 2

RECURSIVE WordTokens(_, _, _)
WordTokens(s, cur, acc) ==
    IF s = <<>> THEN (IF cur = <<>> THEN acc ELSE Append(acc, cur))
    ELSE IF ~IsWordChar(Head(s))
         THEN WordTokens(Tail(s), <<>>,
                         Append(IF cur = <<>> THEN acc ELSE Append(acc, cur), <<Head(s)>>))
         ELSE IF Len(cur) + 1 = WordLen
              THEN WordTokens(Tail(s), <<>>, Append(acc, Append(cur, Head(s))))
              ELSE WordTokens(Tail(s), Append(cur, Head(s)), acc)

\* tagger(text): the surface forms, which concatenate to text
Tokenize(s) ==
    IF tagger = "word" THEN WordTokens(s, <<>>, <<>>)
    ELSE [i \in 1..Len(s) |-> <<s[i]>>]

----------------------------------------------------------------------------
(* src/voicevox-srt-nsg.py: the text segmenter *)

is_ascii_letter(ch) == ch = "x"

\* a variant of the sentence-ending marks that also ends a sentence at a comma
SentenceEndWithComma == {".", "!", "?", "\n", ","}

SentenceEnd == {".", "!", "?", "\n"}

\* the loop of fugashi_segment_text over units (characters or tokens)
RECURSIVE SegmentLoop(_, _, _)
SegmentLoop(units, cur, segs) ==
    IF units = <<>> THEN <<cur, segs>>
    ELSE LET c == cur \o Head(units)
         IN  IF Len(Head(units)) = 1 /\ Head(units)[1] \in SentenceEnd
             THEN SegmentLoop(Tail(units), <<>>, Append(segs, Strip(c)))
             ELSE SegmentLoop(Tail(units), c, segs)

fugashi_segment_text(t) ==
    IF tagger = "none"
    THEN LET r == SegmentLoop([i \in 1..Len(t) |-> <<t[i]>>], <<>>, <<>>)
         IN  IF Strip(r[1]) # <<>> THEN Append(r[2], Strip(r[1])) ELSE r[2]
    ELSE LET r == SegmentLoop(Tokenize(t), <<>>, <<>>)
         IN  IF r[1] # <<>> THEN Append(r[2], Strip(r[1])) ELSE r[2]

Punctuation == {",", "."}

\* the greatest i in 1..Len(chunk) with chunk[i] a punctuation mark, or -1
LastPunct(chunk) ==
    LET I == {i \in 1..Len(chunk) : chunk[i] \in Punctuation}
    IN  IF I = {} THEN -1 ELSE CHOOSE i \in I : \A j \in I : j <= i

RECURSIVE PunctRun(_)
PunctRun(s) == IF s # <<>> /\ Head(s) \in Punctuation THEN 1 + PunctRun(Tail(s)) ELSE 0

RECURSIVE SplitLongLoop(_, _, _)
SplitLongLoop(remaining, mc, result) ==
    IF Len(remaining) > mc
    THEN LET chunk == Take(remaining, mc)
             found == LastPunct(chunk)
             split_index == IF found = -1 \/ 2 * found < mc THEN mc ELSE found
             piece == Strip(Take(remaining, split_index))
             rest == Drop(remaining, split_index)
             j == PunctRun(rest)
         IN  SplitLongLoop(Drop(rest, j), mc, Append(result, piece \o Take(rest, j)))
    ELSE IF remaining # <<>> THEN Append(result, Strip(remaining)) ELSE result

split_long_segment(segment, mc) == SplitLongLoop(segment, mc, <<>>)

RECURSIVE TokenPackLoop(_, _, _, _)
TokenPackLoop(tokens, mc, cur, out) ==
    IF tokens = <<>> THEN (IF cur # <<>> THEN Append(out, cur) ELSE out)
    ELSE IF Len(cur) + Len(Head(tokens)) <= mc
         THEN TokenPackLoop(Tail(tokens), mc, cur \o Head(tokens), out)
         ELSE TokenPackLoop(Tail(tokens), mc, Head(tokens),
                            IF cur # <<>> THEN Append(out, cur) ELSE out)

\* a variant of token_based_split that never appends the line still being
\* filled when the tokens run out
TokenSplitNoFlush(t, mc) ==
    LET r == TokenPackLoop(IF tagger = "none" THEN PySplit(t) ELSE Tokenize(t), mc, <<>>, <<>>)
    IN  IF r = <<>> THEN r ELSE SubSeq(r, 1, Len(r) - 1)

token_based_split(t, mc) ==
    TokenPackLoop(IF tagger = "none" THEN PySplit(t) ELSE Tokenize(t), mc, <<>>, <<>>)

min_line_length == 7

RECURSIVE AdjustLoop(_, _, _, _)
AdjustLoop(ls, i, mc, new_lines) ==
    IF i > Len(ls) THEN new_lines
    ELSE LET merge_flag ==
                 /\ i < Len(ls)
                 /\ LET current_line == RStrip(ls[i])
                        next_line == LStrip(ls[i + 1])
                    IN  \/ /\ current_line # <<>>
                           /\ next_line # <<>>
                           /\ is_ascii_letter(current_line[Len(current_line)])
                           /\ is_ascii_letter(next_line[1])
                        \/ Len(next_line) < min_line_length
         IN  IF merge_flag
             THEN AdjustLoop(ls, i + 2, mc,
                             new_lines \o token_based_split(Strip(ls[i]) \o Strip(ls[i + 1]), mc))
             ELSE AdjustLoop(ls, i + 1, mc, Append(new_lines, ls[i]))

adjust_line_breaks(ls, mc) == AdjustLoop(ls, 1, mc, <<>>)

\* the packing loop of smart_split_text: <<current_line, lines>>
RECURSIVE PackLoop(_, _, _, _)
PackLoop(segs, mc, cur, out) ==
    IF segs = <<>> THEN (IF cur # <<>> THEN Append(out, cur) ELSE out)
    ELSE LET seg == Strip(Head(segs))
         IN  IF seg = <<>> THEN PackLoop(Tail(segs), mc, cur, out)
             ELSE IF Len(seg) > mc
             THEN PackLoop(Tail(segs), mc, <<>>,
                           (IF cur # <<>> THEN Append(out, cur) ELSE out)
                               \o split_long_segment(seg, mc))
             ELSE IF Len(cur) + Len(seg) <= mc
             THEN PackLoop(Tail(segs), mc, cur \o seg, out)
             ELSE PackLoop(Tail(segs), mc, seg,
                           IF cur # <<>> THEN Append(out, cur) ELSE out)

smart_split_text(t, mc) ==
    adjust_line_breaks(PackLoop(fugashi_segment_text(t), mc, <<>>, <<>>), mc)

split_lines_by_max_lines(ls, ml) ==
    IF ml <= 0 \/ Len(ls) <= ml THEN <<ls>>
    ELSE [c \in 1..((Len(ls) + ml - 1) \div ml) |->
             SubSeq(ls, (c - 1) * ml + 1, Min(c * ml, Len(ls)))]

----------------------------------------------------------------------------
(* src/voicevox-srt-nsg.py: durations and the phoneme-text aligner          *)
(* A project record is [text, query]; a query is [accentPhrases, speedScale,*)
(* prePhonemeLength, postPhonemeLength, pauseLength, pauseLengthScale]; an  *)
(* accent phrase is [moras, pauseMora]; a mora is [vowel, vowelLength,      *)
(* consonantLength].  Lengths are whole milliseconds; a number v that the   *)
(* JSON object has is the tuple <<v>>, a key it does not have is None, and  *)
(* an object that it has (a pauseMora) is the one-element tuple of it.      *)

Num(v) == <<v>>

\* dict.get(key, default)
Get(v, default) == IF v = None THEN default ELSE v[1]

DefaultPre == 100
DefaultPostNsg == 1000

MoraDuration(m) == Get(m.vowelLength, 0) + Get(m.consonantLength, 0)

RECURSIVE SumPhrases(_)
SumPhrases(phrases) ==
    IF phrases = <<>> THEN 0
    ELSE SumSeq([i \in 1..Len(Head(phrases).moras) |-> MoraDuration(Head(phrases).moras[i])])
         + (IF Head(phrases).pauseMora # None
            THEN Get(Head(phrases).pauseMora[1].vowelLength, 0) ELSE 0)
         + SumPhrases(Tail(phrases))

calculate_audio_duration(q) ==
    \* a query without the key; the assembler calls with a non-empty list only
    IF q.accentPhrases = <<>> THEN 0
    ELSE SumPhrases(q.accentPhrases)
         + Get(q.prePhonemeLength, DefaultPre) + Get(q.postPhonemeLength, DefaultPostNsg)

PauseMarks == {",", ".", "!", "?"}

\* the loop of build_mora_list_with_text_mapping over the moras of one phrase;
\* st = [mora_list, index, text_pos], index a function from 0-based text
\* offsets to 0-based positions of mora_list
RECURSIVE MapMoras(_, _, _)
MapMoras(t, moras, st) ==
    IF moras = <<>> THEN st
    ELSE LET ml == Append(st.mora_list, MoraDuration(Head(moras)))
         IN  MapMoras(t, Tail(moras),
                 IF st.text_pos < Len(t)
                 THEN [mora_list |-> ml,
                       index |-> [k \in DOMAIN st.index \cup {st.text_pos} |->
                                     IF k = st.text_pos THEN Len(ml) - 1 ELSE st.index[k]],
                       text_pos |-> st.text_pos + 1]
                 ELSE [st EXCEPT !.mora_list = ml])

\* a variant of MapPhrases in which a pause mora takes the character at the
\* cursor whatever it is
RECURSIVE MapPhrasesPauseTakesAny(_, _, _)
MapPhrasesPauseTakesAny(t, phrases, st) ==
    IF phrases = <<>> THEN st
    ELSE LET s1 == MapMoras(t, Head(phrases).moras, st)
             pm == Head(phrases).pauseMora
             ml == Append(s1.mora_list, Get(pm[1].vowelLength, 0))
             s2 == IF pm = None THEN s1
                   ELSE IF s1.text_pos < Len(t)
                   THEN [mora_list |-> ml,
                         index |-> [k \in DOMAIN s1.index \cup {s1.text_pos} |->
                                       IF k = s1.text_pos THEN Len(ml) - 1 ELSE s1.index[k]],
                         text_pos |-> s1.text_pos + 1]
                   ELSE [s1 EXCEPT !.mora_list = ml]
         IN  MapPhrasesPauseTakesAny(t, Tail(phrases), s2)

RECURSIVE MapPhrases(_, _, _)
MapPhrases(t, phrases, st) ==
    IF phrases = <<>> THEN st
    ELSE LET s1 == MapMoras(t, Head(phrases).moras, st)
             pm == Head(phrases).pauseMora
             ml == Append(s1.mora_list, Get(pm[1].vowelLength, 0))
             s2 == IF pm = None THEN s1
                   ELSE IF s1.text_pos < Len(t) /\ t[s1.text_pos + 1] \in PauseMarks
                   THEN [mora_list |-> ml,
                         index |-> [k \in DOMAIN s1.index \cup {s1.text_pos} |->
                                       IF k = s1.text_pos THEN Len(ml) - 1 ELSE s1.index[k]],
                         text_pos |-> s1.text_pos + 1]
                   ELSE [s1 EXCEPT !.mora_list = ml]
         IN  MapPhrases(t, Tail(phrases), s2)

build_mora_list_with_text_mapping(t, accent_phrases) ==
    MapPhrases(t, accent_phrases, [mora_list |-> <<>>, index |-> <<>>, text_pos |-> 0])

\* str.find: the 0-based offset of the first occurrence of sub in s, or -1
Find(s, sub) ==
    LET I == {i \in 0..(Len(s) - Len(sub)) : SubSeq(s, i + 1, i + Len(sub)) = sub}
    IN  IF I = {} THEN -1 ELSE CHOOSE i \in I : \A j \in I : i <= j

\* a variant of calculate_chunk_precise_duration that returns the length of
\* the whole utterance for a chunk text it does not find
ChunkDurationWholeOnMiss(chunk_text, original_text, mora_list, index) ==
    LET chunk_start_pos == Find(original_text, chunk_text)
        chunk_end_pos == chunk_start_pos + Len(chunk_text) - 1
        mora_start_idx == IF chunk_start_pos \in DOMAIN index THEN index[chunk_start_pos] ELSE -1
        mora_end_idx == IF chunk_end_pos \in DOMAIN index THEN index[chunk_end_pos] ELSE -1
    IN  IF chunk_start_pos = -1 THEN SumSeq(mora_list)
        ELSE IF mora_start_idx = -1 \/ mora_end_idx = -1 THEN 0
        ELSE SumSeq([n \in 1..(mora_end_idx - mora_start_idx + 1) |->
                        IF mora_start_idx + n - 1 < Len(mora_list)
                        THEN mora_list[mora_start_idx + n] ELSE 0])

\* the duration returned by calculate_chunk_precise_duration
calculate_chunk_precise_duration(chunk_text, original_text, mora_list, index) ==
    LET chunk_start_pos == Find(original_text, chunk_text)
        chunk_end_pos == chunk_start_pos + Len(chunk_text) - 1
        mora_start_idx == IF chunk_start_pos \in DOMAIN index THEN index[chunk_start_pos] ELSE -1
        mora_end_idx == IF chunk_end_pos \in DOMAIN index THEN index[chunk_end_pos] ELSE -1
    IN  IF chunk_start_pos = -1 THEN 0
        ELSE IF mora_start_idx = -1 \/ mora_end_idx = -1 THEN 0
        ELSE SumSeq([n \in 1..(mora_end_idx - mora_start_idx + 1) |->
                        IF mora_start_idx + n - 1 < Len(mora_list)
                        THEN mora_list[mora_start_idx + n] ELSE 0])

\* format_srt_time of a whole number of milliseconds: <<hh, mm, ss, mmm>>
format_srt_time(t) ==
    <<t \div 3600000, (t % 3600000) \div 60000, (t % 60000) \div 1000, t % 1000>>

----------------------------------------------------------------------------
(* src/nsg-customized/voicevox_srt_generator.py: AdvancedSegmentSplitter *)

NaturalBreaks == {".", "!", "?", ","}

\* a token whose features name a verb or a particle
IsVerbOrParticle(tok) == tok = <<"p">>

\* the end offsets of the first n tokens
RECURSIVE TokenEnds(_, _)
TokenEnds(tokens, n) == IF n = 0 THEN 0 ELSE TokenEnds(tokens, n - 1) + Len(tokens[n])

\* None is modelled as -1
_find_best_split_position(t, mc) ==
    IF Len(t) <= mc THEN -1
    ELSE LET natural == {pos \in 1..Len(t) : t[pos] \in NaturalBreaks /\ 0 < pos /\ pos <= mc}
             tokens == Tokenize(t)
             morph == IF tagger = "none" THEN {}
                      ELSE {TokenEnds(tokens, n) : n \in {m \in 1..Len(tokens) :
                                /\ IsVerbOrParticle(tokens[m])
                                /\ 0 < TokenEnds(tokens, m)
                                /\ TokenEnds(tokens, m) <= mc}}
             Max(S) == CHOOSE x \in S : \A y \in S : y <= x
         IN  IF natural # {} THEN Max(natural)
             ELSE IF morph # {} THEN Max(morph)
             ELSE mc

RECURSIVE _split_text_recursive(_, _)
_split_text_recursive(t, mc) ==
    IF Len(t) <= mc THEN <<t>>
    ELSE LET split_pos == _find_best_split_position(t, mc)
         IN  IF split_pos = -1 \/ split_pos = 0 THEN <<Take(t, mc)>>
             ELSE LET first_part == Strip(Take(t, split_pos))
                      remaining_part == Strip(Drop(t, split_pos))
                  IN  (IF first_part # <<>> THEN _split_text_recursive(first_part, mc) ELSE <<>>)
                      \o (IF remaining_part # <<>>
                          THEN _split_text_recursive(remaining_part, mc) ELSE <<>>)

\* "\n".join(group)
RECURSIVE JoinLines(_)
JoinLines(group) ==
    IF group = <<>> THEN <<>>
    ELSE IF Len(group) = 1 THEN group[1]
    ELSE group[1] \o <<"\n">> \o JoinLines(Tail(group))

split_text_smart(t, mc, ml) ==
    IF Len(t) <= mc THEN <<t>>
    ELSE LET segs == _split_text_recursive(t, mc)
         IN  IF ml > 0 /\ Len(segs) > ml
             THEN [g \in 1..((Len(segs) + ml - 1) \div ml) |->
                      JoinLines(SubSeq(segs, (g - 1) * ml + 1, Min(g * ml, Len(segs))))]
             ELSE IF segs # <<>> THEN segs ELSE <<t>>

----------------------------------------------------------------------------
(* src/nsg-customized/voicevox_srt_generator.py: VOICEVOXOfficialCalculator *)
(* A length is a rational number of milliseconds <<n, d>> (n/d, d > 0); a   *)
(* scale is a rational <<a, b>>.  An Optional[Mora] that is present is the  *)
(* one-element tuple of the mora.  A field that holds Python's None is None.*)
(* The pitch of a mora is kept as "f0" (a positive number), "0" (0.0) or    *)
(* "None": the pipeline only multiplies it and compares it with 0.          *)

Rat(n) == <<n, 1>>
RatMul(x, y) == <<x[1] * y[1], x[2] * y[2]>>
RatDiv(x, y) == IF y[1] < 0 THEN <<0 - x[1] * y[2], 0 - x[2] * y[1]>>
                ELSE <<x[1] * y[2], x[2] * y[1]>>
RatIsZero(x) == x[1] = 0

\* FRAMERATE = 93.75 frames per second = 375/4000 frames per millisecond
FRAMERATE == <<375, 4000>>

\* numpy.round of n/d for n >= 0, d > 0: to the nearest integer, a tie to the
\* even one
NpRound(n, d) ==
    LET q == n \div d
        r == n % d
    IN  IF 2 * r < d THEN q
        ELSE IF 2 * r > d THEN q + 1
        ELSE IF q % 2 = 0 THEN q ELSE q + 1

\* a variant of _to_frame that rounds a tie up
ToFrameHalfUp(sec) ==
    LET x == RatMul(sec, FRAMERATE) IN (2 * x[1] + x[2]) \div (2 * x[2])

_to_frame(sec) ==
    LET x == RatMul(sec, FRAMERATE) IN NpRound(x[1], x[2])

_generate_silence_mora(length) ==
    [vowel |-> "sil", vowel_length |-> length, consonant_length |-> None, pitch |-> "0"]

\* a variant of _apply_prepost_silence that adds the leading silence only
PreSilenceOnly(moras, q) == <<_generate_silence_mora(q.prePhonemeLength)>> \o moras

_apply_prepost_silence(moras, q) ==
    <<_generate_silence_mora(q.prePhonemeLength)>> \o moras
        \o <<_generate_silence_mora(q.postPhonemeLength)>>

_apply_pause_length(moras, q) ==
    IF q.pauseLength # None
    THEN [i \in 1..Len(moras) |->
             IF moras[i].vowel = "pau"
             THEN [moras[i] EXCEPT !.vowel_length = q.pauseLength] ELSE moras[i]]
    ELSE moras

_apply_pause_length_scale(moras, q) ==
    [i \in 1..Len(moras) |->
        IF moras[i].vowel = "pau"
        THEN [moras[i] EXCEPT !.vowel_length = RatMul(@, q.pauseLengthScale)] ELSE moras[i]]

_apply_speed_scale(moras, q) ==
    [i \in 1..Len(moras) |->
        [moras[i] EXCEPT
            !.vowel_length = RatDiv(@, q.speedScale),
            !.consonant_length = IF @ # None /\ ~RatIsZero(@)
                                 THEN RatDiv(@, q.speedScale) ELSE @]]

\* frame_per_mora of _count_frame_per_unit
_count_frame_per_unit(moras) ==
    [i \in 1..Len(moras) |->
        _to_frame(moras[i].vowel_length)
            + (IF moras[i].consonant_length # None
               THEN _to_frame(moras[i].consonant_length) ELSE 0)]

\* mora.vowel_length *= query.pauseLengthScale raises TypeError on a None operand
PauseLengthScaleRaises(moras, q) ==
    \E i \in 1..Len(moras) :
        moras[i].vowel = "pau" /\ (moras[i].vowel_length = None \/ q.pauseLengthScale = None)

\* mora.vowel_length /= query.speedScale raises TypeError on a None operand and
\* ZeroDivisionError on a speed scale of 0
SpeedScaleRaises(moras, q) ==
    /\ moras # <<>>
    /\ \/ q.speedScale = None
       \/ RatIsZero(q.speedScale)
       \/ \E i \in 1..Len(moras) : moras[i].vowel_length = None

\* mora.pitch *= 2**query.pitchScale raises TypeError on a None operand
PitchScaleRaises(moras, q) ==
    /\ moras # <<>>
    /\ q.pitchScale = None \/ \E i \in 1..Len(moras) : moras[i].pitch = "None"

\* (mora.pitch - mean_f0) * query.intonationScale raises TypeError on a None scale
IntonationScaleRaises(moras, q) ==
    /\ \E i \in 1..Len(moras) : moras[i].pitch = "f0"
    /\ q.intonationScale = None

\* the pipeline raises in one of its steps
PipelineRaises(moras, q) ==
    LET ms == _apply_pause_length(_apply_prepost_silence(moras, q), q)
    IN  \/ PauseLengthScaleRaises(ms, q)
        \/ SpeedScaleRaises(ms, q)
        \/ PitchScaleRaises(ms, q)
        \/ IntonationScaleRaises(ms, q)

\* a variant of the pipeline that scales the pauses before it overrides them
PipelineScaleBeforeOverride(moras, q) ==
    _apply_speed_scale(
        _apply_pause_length(
            _apply_pause_length_scale(_apply_prepost_silence(moras, q), q), q), q)

\* the duration steps of the pipeline (the pitch steps keep "f0", "0" and
\* the lengths as they are)
_apply_voicevox_processing_pipeline(moras, q) ==
    _apply_speed_scale(
        _apply_pause_length_scale(
            _apply_pause_length(_apply_prepost_silence(moras, q), q), q), q)

\* the moras of the accent phrases, each phrase's pause mora after its moras
RECURSIVE FlattenPhrases(_)
FlattenPhrases(phrases) ==
    IF phrases = <<>> THEN <<>>
    ELSE Head(phrases).moras
             \o (IF Head(phrases).pause_mora # None THEN Head(phrases).pause_mora ELSE <<>>)
             \o FlattenPhrases(Tail(phrases))

ProcessedMoras(q) == _apply_voicevox_processing_pipeline(FlattenPhrases(q.accent_phrases), q)

\* total_frame; the function returns total_frame / FRAMERATE seconds
calculate_accurate_duration(q) == SumSeq(_count_frame_per_unit(ProcessedMoras(q)))

\* calculate_accurate_duration(q) raises instead of returning
CalculateRaises(q) == PipelineRaises(FlattenPhrases(q.accent_phrases), q)

\* the query after the call: the pipeline rewrites the Mora objects of the
\* accent phrases in place (the two silence moras are fresh objects)
QueryAfterCall(q) ==
    LET upd(ms) == _apply_speed_scale(_apply_pause_length_scale(_apply_pause_length(ms, q), q), q)
    IN  [q EXCEPT !.accent_phrases =
            [i \in 1..Len(q.accent_phrases) |->
                [moras |-> upd(q.accent_phrases[i].moras),
                 pause_mora |-> upd(q.accent_phrases[i].pause_mora)]]]

----------------------------------------------------------------------------
(* src/voicevox-srt-nsg.py: convert_vvproj_to_srt_with_perfect_timing *)

\* a variant of the chunk loop of Pass 1 that adds the leading silence to
\* every chunk
RECURSIVE ChunkLoopPreEveryChunk(_, _, _, _, _)
ChunkLoopPreEveryChunk(chunks, i, item, current_start, out) ==
    IF i > Len(chunks) THEN out
    ELSE LET aligned == build_mora_list_with_text_mapping(item.text, item.query.accentPhrases)
             chunk_text == Flatten(chunks[i])
             precise == calculate_chunk_precise_duration(
                            chunk_text, item.text, aligned.mora_list, aligned.index)
             chunk_duration ==
                 precise
                 + Get(item.query.prePhonemeLength, DefaultPre)
                 + (IF i = Len(chunks)
                    THEN Get(item.query.postPhonemeLength, DefaultPostNsg) ELSE 0)
         IN  IF chunk_duration = 0
             THEN ChunkLoopPreEveryChunk(chunks, i + 1, item, current_start, out)
             ELSE ChunkLoopPreEveryChunk(chunks, i + 1, item, current_start + chunk_duration,
                            Append(out, [start_time |-> current_start,
                                         end_time |-> current_start + chunk_duration,
                                         lines |-> chunks[i],
                                         duration |-> chunk_duration]))

\* the chunk loop of Pass 1: the cues of one utterance, from chunk i on
RECURSIVE ChunkLoop(_, _, _, _, _)
ChunkLoop(chunks, i, item, current_start, out) ==
    IF i > Len(chunks) THEN out
    ELSE LET aligned == build_mora_list_with_text_mapping(item.text, item.query.accentPhrases)
             chunk_text == Flatten(chunks[i])
             precise == calculate_chunk_precise_duration(
                            chunk_text, item.text, aligned.mora_list, aligned.index)
             chunk_duration ==
                 precise
                 + (IF i = 1 THEN Get(item.query.prePhonemeLength, DefaultPre) ELSE 0)
                 + (IF i = Len(chunks)
                    THEN Get(item.query.postPhonemeLength, DefaultPostNsg) ELSE 0)
         IN  IF chunk_duration = 0
             THEN ChunkLoop(chunks, i + 1, item, current_start, out)
             ELSE ChunkLoop(chunks, i + 1, item, current_start + chunk_duration,
                            Append(out, [start_time |-> current_start,
                                         end_time |-> current_start + chunk_duration,
                                         lines |-> chunks[i],
                                         duration |-> chunk_duration]))

\* the utterances Pass 1 does not skip
NsgProcessed(items, key) ==
    /\ items_type = "dict"
    /\ key \in DOMAIN items
    /\ Strip(items[key].text) # <<>>
    /\ items[key].query.accentPhrases # <<>>

\* the cues one iteration of Pass 1 appends
Pass1Cues(item, g, mc, ml) ==
    ChunkLoop(split_lines_by_max_lines(smart_split_text(item.text, mc), ml), 1, item, g, <<>>)

\* a variant of Pass1Advance: the cursor moves by the sum of the durations of
\* the cues of the utterance
Pass1AdvanceByChunks(item) ==
    LET cues == ChunkLoop(split_lines_by_max_lines(smart_split_text(item.text, max_chars),
                                                   max_lines), 1, item, 0, <<>>)
    IN  IF cues = <<>> THEN 0 ELSE cues[Len(cues)].end_time

\* what one iteration of Pass 1 adds to the utterance-level cursor
Pass1Advance(item) == calculate_audio_duration(item.query)

\* a variant of Pass 2 that leaves every end as Pass 1 computed it
Pass2Identity(subs, g) == subs

\* a variant of Pass 2 that leaves the end of the last cue as Pass 1 computed it
Pass2KeepLastEnd(subs, g) ==
    [i \in 1..Len(subs) |->
        [subs[i] EXCEPT !.end_time = IF i < Len(subs) THEN subs[i + 1].start_time ELSE @]]

\* Pass 2: every end becomes the next start, the last end the final cursor
Pass2(subs, g) ==
    [i \in 1..Len(subs) |->
        [subs[i] EXCEPT !.end_time = IF i < Len(subs) THEN subs[i + 1].start_time ELSE g]]

\* a variant of Pass 3 that numbers the cues from 0
Pass3ZeroBased(subs) ==
    [i \in 1..Len(subs) |->
        [index |-> i - 1,
         start_time |-> format_srt_time(subs[i].start_time),
         end_time |-> format_srt_time(subs[i].end_time),
         text |-> JoinLines(subs[i].lines)]]

\* Pass 3: the numbered cues of the SRT file
Pass3(subs) ==
    [i \in 1..Len(subs) |->
        [index |-> i,
         start_time |-> format_srt_time(subs[i].start_time),
         end_time |-> format_srt_time(subs[i].end_time),
         text |-> JoinLines(subs[i].lines)]]

----------------------------------------------------------------------------
(* src/nsg-customized/voicevox_srt_generator.py: VOICEVOXSRTGenerator *)

MAX_CHARS == 26
MAX_LINES == 2

DefaultPostGen == 100
PauseVowel == "pau"

\* a JSON null stored under a key, as opposed to None, the key being absent
Null == <<0, 0, 0>>

\* dict.get(key, default) of a length in ms: the default for an absent key,
\* Python's None for a null
GetLength(v, default) ==
    IF v = Null THEN None ELSE Rat(Get(v, default))

\* dict.get(key, default) of a scale
GetScale(v, default) ==
    IF v = Null THEN None ELSE IF v = None THEN default ELSE v

\* dict.get("pitch", 0.0) of a mora
GetPitch(v) ==
    IF v = Null THEN "None" ELSE IF Get(v, 0) > 0 THEN "f0" ELSE "0"

ConvertMora(m) ==
    [vowel |-> m.vowel,
     vowel_length |-> GetLength(m.vowelLength, 0),
     consonant_length |-> IF m.consonantLength \in {None, Null} THEN None
                          ELSE Rat(m.consonantLength[1]),
     pitch |-> GetPitch(m.pitch)]

convert_vvproj_to_audioquery(q) ==
    [accent_phrases |->
        [i \in 1..Len(q.accentPhrases) |->
            LET ph == q.accentPhrases[i]
            IN  [moras |-> [j \in 1..Len(ph.moras) |-> ConvertMora(ph.moras[j])],
                 pause_mora |->
                     IF ph.pauseMora # None
                     THEN <<[vowel |-> PauseVowel,
                             vowel_length |-> GetLength(ph.pauseMora[1].vowelLength, 0),
                             consonant_length |-> None,
                             pitch |-> "0"]>>
                     ELSE None]],
     speedScale |-> GetScale(q.speedScale, <<1, 1>>),
     pitchScale |-> GetScale(q.pitchScale, <<0, 1>>),
     intonationScale |-> GetScale(q.intonationScale, <<1, 1>>),
     prePhonemeLength |-> GetLength(q.prePhonemeLength, DefaultPre),
     postPhonemeLength |-> GetLength(q.postPhonemeLength, DefaultPostGen),
     pauseLength |-> IF q.pauseLength \in {None, Null} THEN None
                     ELSE Rat(q.pauseLength[1]),
     pauseLengthScale |-> GetScale(q.pauseLengthScale, <<1, 1>>)]

\* format_time of a time of x = n/d milliseconds: <<hh, mm, ss, mmm>>, the
\* seconds rounded to three decimals (ss is 60 when they round up to a full
\* minute)
FormatTimeMs(x) ==
    LET whole == x[1] \div x[2]
        secs == NpRound(x[1] % (60000 * x[2]), x[2])
    IN  <<whole \div 3600000, (whole % 3600000) \div 60000, secs \div 1000, secs % 1000>>

\* format_time of a time of n/d frames
format_time(t) == FormatTimeMs(RatDiv(t, FRAMERATE))

\* len(segment.replace("\n", ""))
CharCount(seg) == Len(SelectSeq(seg, LAMBDA c : c # "\n"))

\* the entries one iteration of generate_srt appends, from segment j on;
\* done is the character count of the segments before j
RECURSIVE EntryLoop(_, _, _, _, _, _, _)
EntryLoop(segs, j, done, total_chars, cur, dur, entries) ==
    IF j > Len(segs) THEN entries
    ELSE LET start == IF total_chars > 0
                      THEN <<cur * total_chars + dur * done, total_chars>>
                      ELSE <<cur * Len(segs) + dur * (j - 1), Len(segs)>>
             end == IF total_chars > 0
                    THEN <<cur * total_chars + dur * (done + CharCount(segs[j])), total_chars>>
                    ELSE <<cur * Len(segs) + dur * j, Len(segs)>>
         IN  EntryLoop(segs, j + 1, done + CharCount(segs[j]), total_chars, cur, dur,
                          Append(entries, [index |-> Len(entries) + 1,
                                           start_time |-> format_time(start),
                                           end_time |-> format_time(end),
                                           text |-> segs[j]]))

GenEntries(item, cur, entries) ==
    LET dur == calculate_accurate_duration(convert_vvproj_to_audioquery(item.query))
        segs == split_text_smart(item.text, MAX_CHARS, MAX_LINES)
    IN  IF Len(segs) = 1
        THEN Append(entries, [index |-> Len(entries) + 1,
                              start_time |-> format_time(Rat(cur)),
                              end_time |-> format_time(Rat(cur + dur)),
                              text |-> segs[1]])
        ELSE EntryLoop(segs, 1, 0,
                          SumSeq([k \in 1..Len(segs) |-> CharCount(segs[k])]),
                          cur, dur, entries)

GenAdvance(item) == calculate_accurate_duration(convert_vvproj_to_audioquery(item.query))

----------------------------------------------------------------------------
(* Inputs of the segmentation calls *)

MaxLen == 4
MaxCharsBound == 4
MaxLinesBound == 2

Alphabet == {"k", "p", "x", ",", ".", " ", "\n"}

RECURSIVE SeqsUpTo(_, _)
SeqsUpTo(S, n) ==
    IF n = 0 THEN {<<>>}
    ELSE LET shorter == SeqsUpTo(S, n - 1)
         IN  shorter \cup {Append(s, c) : s \in {t \in shorter : Len(t) = n - 1}, c \in S}

RECURSIVE Rep(_, _)
Rep(c, n) == IF n = 0 THEN <<>> ELSE Append(Rep(c, n - 1), c)

\* texts long enough for lines of min_line_length characters and more
LongBlocks == {Rep("k", min_line_length), Append(Rep("k", min_line_length), "."),
               Append(Rep("k", min_line_length - 1), "x"),
               <<"x">> \o Rep("k", min_line_length - 1), <<"k", "k", ",">>, <<" ">>}

LongTexts == {a \o b \o c : a \in LongBlocks, b \in LongBlocks, c \in LongBlocks \cup {<<>>}}

Taggers == {"none", "char", "word"}

SegInputs ==
    {<<t, mc>> : t \in SeqsUpTo(Alphabet, MaxLen), mc \in 1..MaxCharsBound}
        \cup {<<t, mc>> : t \in LongTexts, mc \in {min_line_length, min_line_length + 1}}

IdleSeg == text = <<>> /\ lines = <<>> /\ line_chunks = <<>> /\ segments = <<>>
IdleDur == /\ query = <<>> /\ processed_moras = <<>> /\ frame_per_mora = <<>> /\ duration = 0
           /\ query_data = <<>>
IdleFmt == time_in = 0 /\ timecode = <<>>
IdleAlign == /\ utt_text = <<>> /\ utt_phrases = <<>> /\ unit_list = <<>>
             /\ position_index = <<>> /\ chunk_texts = <<>> /\ chunk_durations = <<>>
IdleSplit == remaining_text = <<>> /\ result_pieces = <<>>
IdleRepeat == second_duration = 0
IdleRun == /\ prog = "-" /\ audio_keys = <<>> /\ audio_items = <<>> /\ key_i = 0
           /\ keys_type = "-" /\ items_type = "-" /\ item_order = <<>>
           /\ all_subtitles = <<>> /\ global_start_time = 0
           /\ srt_entries = <<>> /\ current_time = 0

InitSeg ==
    /\ tagger \in Taggers
    /\ max_lines \in 1..MaxLinesBound
    /\ \E in \in SegInputs : text = in[1] /\ max_chars = in[2]
    /\ pc = "start"
    /\ lines = <<>> /\ line_chunks = <<>> /\ segments = <<>>
    /\ IdleDur /\ IdleRun /\ IdleFmt /\ IdleAlign /\ IdleSplit /\ IdleRepeat

\* lines = smart_split_text(text, max_chars)
SmartSplitText ==
    /\ pc = "start"
    /\ lines' = smart_split_text(text, max_chars)
    /\ pc' = "lines"
    /\ UNCHANGED <<tagger, max_chars, max_lines, text, line_chunks, segments>>
    /\ UNCHANGED durVars /\ UNCHANGED runVars /\ UNCHANGED fmtVars /\ UNCHANGED alignVars /\ UNCHANGED splitVars /\ UNCHANGED repeatVars

\* line_chunks = split_lines_by_max_lines(lines, max_lines)
SplitLinesByMaxLines ==
    /\ pc = "lines"
    /\ line_chunks' = split_lines_by_max_lines(lines, max_lines)
    /\ pc' = "chunks"
    /\ UNCHANGED <<tagger, max_chars, max_lines, text, lines, segments>>
    /\ UNCHANGED durVars /\ UNCHANGED runVars /\ UNCHANGED fmtVars /\ UNCHANGED alignVars /\ UNCHANGED splitVars /\ UNCHANGED repeatVars

\* segments = splitter.split_text_smart(text, max_chars, max_lines)
SplitTextSmart ==
    /\ pc = "chunks"
    /\ segments' = split_text_smart(text, max_chars, max_lines)
    /\ pc' = "done"
    /\ UNCHANGED <<tagger, max_chars, max_lines, text, lines, line_chunks>>
    /\ UNCHANGED durVars /\ UNCHANGED runVars /\ UNCHANGED fmtVars /\ UNCHANGED alignVars /\ UNCHANGED splitVars /\ UNCHANGED repeatVars

NextSeg == SmartSplitText \/ SplitLinesByMaxLines \/ SplitTextSmart

SpecSeg == InitSeg /\ [][NextSeg]_vars

----------------------------------------------------------------------------
(* One conversion run *)

MaxKeys == 2

Keys == {"a", "b"}

RawMora(v) == [vowel |-> "a", vowelLength |-> Num(v), consonantLength |-> None,
               pitch |-> Num(5)]
RawMoraC(v, c) == [vowel |-> "a", vowelLength |-> Num(v), consonantLength |-> Num(c),
                   pitch |-> Num(5)]
RawPause(v) == <<[vowel |-> PauseVowel, vowelLength |-> Num(v)]>>
RawPhrase(ms, pm) == [moras |-> ms, pauseMora |-> pm]
RawQuery(phrases, pre, post) ==
    [accentPhrases |-> phrases, speedScale |-> None,
     pitchScale |-> None, intonationScale |-> None,
     prePhonemeLength |-> pre, postPhonemeLength |-> post,
     pauseLength |-> None, pauseLengthScale |-> None]
Item(t, q) == [text |-> t, query |-> q]

\* the silences of a record: both zero, or the first 100 ms and the second missing
Silences == {<<Num(0), Num(0)>>, <<Num(100), None>>}

\* mora lengths: those of the first accent phrase and those of the others
Profiles == {<<0, 0>>, <<100, 100>>, <<300, 10>>}

\* the texts of the records and accent phrases that read them
ItemPhrases(d) ==
    {<< <<"k", "k">>, <<RawPhrase(<<RawMora(d[1]), RawMoraC(d[2], d[2])>>, None)>> >>,
     << <<"k", ".", "k", ".", "k", ".">>,
        <<RawPhrase(<<RawMora(d[1])>>, RawPause(d[1])),
          RawPhrase(<<RawMora(d[2])>>, RawPause(d[2])),
          RawPhrase(<<RawMora(d[2])>>, RawPause(d[2]))>> >>,
     << <<"k", "k", ".", " ", "k">>,
        <<RawPhrase(<<RawMora(d[1]), RawMora(d[1])>>, RawPause(d[2])),
          RawPhrase(<<RawMora(d[2])>>, None)>> >>,
     << <<"k", "k", ".", "x", "k", ".">>,
        <<RawPhrase(<<RawMora(d[1]), RawMora(d[1])>>, RawPause(d[2])),
          RawPhrase(<<RawMora(d[2]), RawMora(d[2])>>, RawPause(d[2]))>> >>,
     << <<"k", "k", ".", "x", "k", ".">>, <<RawPhrase(<<RawMora(d[1])>>, None)>> >>,
     << <<" ">>, <<RawPhrase(<<RawMora(d[1])>>, None)>> >>,
     << <<"k", "k">>, <<>> >>}

ItemsNsg ==
    {Item(tp[1], RawQuery(tp[2], sl[1], sl[2])) : tp \in UNION {ItemPhrases(d) : d \in Profiles},
                                                  sl \in Silences}

\* texts of the frame-based generator: longer than MAX_CHARS to be split
GenTexts == {<<>>, <<"k", "k">>, <<"k", "\n", "k", "\n", "k">>,
             Rep("k", MAX_CHARS + 1), Rep("k", 2 * MAX_CHARS + 1),
             Rep("k", MAX_CHARS - 1) \o <<",">> \o Rep("k", MAX_CHARS - 1) \o <<".", " ", "k">>}

ItemsGen ==
    {Item(t, RawQuery(ph, sl[1], sl[2])) :
        t \in GenTexts,
        ph \in {<<>>, <<RawPhrase(<<RawMora(0)>>, None)>>,
                <<RawPhrase(<<RawMora(100), RawMoraC(16, 48)>>, RawPause(300))>>},
        sl \in Silences}

\* the keys of a record map in the order of the alphabet
FileOrder(D) == SelectSeq(<<"a", "b", "c">>, LAMBDA k : k \in D)

Init ==
    /\ prog \in {"nsg", "gen"}
    /\ tagger \in Taggers
    /\ IF prog = "nsg" THEN max_chars \in {2, 3} /\ max_lines \in {1, 2}
       ELSE max_chars = MAX_CHARS /\ max_lines = MAX_LINES
    /\ audio_keys \in SeqsUpTo(Keys, MaxKeys)
    /\ \E D \in SUBSET Keys :
          audio_items \in [D -> IF prog = "nsg" THEN ItemsNsg ELSE ItemsGen]
    /\ keys_type = "list" /\ items_type = "dict"
    /\ item_order = FileOrder(DOMAIN audio_items)
    /\ key_i = 0
    /\ all_subtitles = <<>> /\ global_start_time = 0
    /\ srt_entries = <<>> /\ current_time = 0
    /\ pc = "start"
    /\ IdleSeg /\ IdleDur /\ IdleFmt /\ IdleAlign /\ IdleSplit /\ IdleRepeat

\* nsg: the project is loaded; an empty ordering list or record map ends the run
NsgStart ==
    /\ prog = "nsg" /\ pc = "start"
    /\ IF audio_keys = <<>> \/ DOMAIN audio_items = {}
       THEN pc' = "aborted" /\ key_i' = key_i
       ELSE pc' = "pass1" /\ key_i' = 1
    /\ UNCHANGED <<tagger, max_chars, max_lines, prog, audio_keys, audio_items,
                   all_subtitles, global_start_time, srt_entries, current_time>>
    /\ UNCHANGED inVars /\ UNCHANGED segVars /\ UNCHANGED durVars /\ UNCHANGED fmtVars /\ UNCHANGED alignVars /\ UNCHANGED splitVars /\ UNCHANGED repeatVars

\* a variant of Pass 1 that leaves the loop at the first key without a record
NsgPass1BreakOnMissing ==
    /\ prog = "nsg" /\ pc = "pass1" /\ key_i <= Len(audio_keys)
    /\ LET audio_key == audio_keys[key_i]
       IN  IF NsgProcessed(audio_items, audio_key)
           THEN /\ all_subtitles' = all_subtitles \o
                        Pass1Cues(audio_items[audio_key], global_start_time, max_chars, max_lines)
                /\ global_start_time' = global_start_time + Pass1Advance(audio_items[audio_key])
                /\ key_i' = key_i + 1
           ELSE /\ UNCHANGED <<all_subtitles, global_start_time>>
                /\ key_i' = IF items_type = "dict" /\ audio_key \in DOMAIN audio_items
                            THEN key_i + 1 ELSE Len(audio_keys) + 1
    /\ UNCHANGED <<tagger, max_chars, max_lines, pc, prog, audio_keys, audio_items,
                   srt_entries, current_time>>
    /\ UNCHANGED inVars /\ UNCHANGED segVars /\ UNCHANGED durVars /\ UNCHANGED fmtVars /\ UNCHANGED alignVars /\ UNCHANGED splitVars /\ UNCHANGED repeatVars

\* nsg: one iteration of Pass 1 (one key of the ordering list)
NsgPass1 ==
    /\ prog = "nsg" /\ pc = "pass1" /\ key_i <= Len(audio_keys)
    /\ LET audio_key == audio_keys[key_i]
       IN  IF NsgProcessed(audio_items, audio_key)
           THEN /\ all_subtitles' = all_subtitles \o
                        Pass1Cues(audio_items[audio_key], global_start_time, max_chars, max_lines)
                /\ global_start_time' = global_start_time + Pass1Advance(audio_items[audio_key])
           ELSE UNCHANGED <<all_subtitles, global_start_time>>
    /\ key_i' = key_i + 1
    /\ UNCHANGED <<tagger, max_chars, max_lines, pc, prog, audio_keys, audio_items,
                   srt_entries, current_time>>
    /\ UNCHANGED inVars /\ UNCHANGED segVars /\ UNCHANGED durVars /\ UNCHANGED fmtVars /\ UNCHANGED alignVars /\ UNCHANGED splitVars /\ UNCHANGED repeatVars

\* nsg: Pass 2 rewrites the end times
NsgPass2 ==
    /\ prog = "nsg" /\ pc = "pass1" /\ key_i > Len(audio_keys)
    /\ all_subtitles' = Pass2(all_subtitles, global_start_time)
    /\ pc' = "pass3"
    /\ UNCHANGED <<tagger, max_chars, max_lines, prog, audio_keys, audio_items, key_i,
                   global_start_time, srt_entries, current_time>>
    /\ UNCHANGED inVars /\ UNCHANGED segVars /\ UNCHANGED durVars /\ UNCHANGED fmtVars /\ UNCHANGED alignVars /\ UNCHANGED splitVars /\ UNCHANGED repeatVars

\* nsg: Pass 3 numbers and formats the cues and writes the file
NsgPass3 ==
    /\ prog = "nsg" /\ pc = "pass3"
    /\ srt_entries' = Pass3(all_subtitles)
    /\ pc' = "done"
    /\ UNCHANGED <<tagger, max_chars, max_lines, prog, audio_keys, audio_items, key_i,
                   all_subtitles, global_start_time, current_time>>
    /\ UNCHANGED inVars /\ UNCHANGED segVars /\ UNCHANGED durVars /\ UNCHANGED fmtVars /\ UNCHANGED alignVars /\ UNCHANGED splitVars /\ UNCHANGED repeatVars

\* gen: parse_vvproj returns the ordering list and the record map, or raises
\* ValueError when one of them has the wrong type
GenStart ==
    /\ prog = "gen" /\ pc = "start"
    /\ IF keys_type \in {"list", "absent"} /\ items_type \in {"dict", "absent"}
       THEN pc' = "loop" /\ key_i' = 1
       ELSE pc' = "raised" /\ key_i' = key_i
    /\ UNCHANGED <<tagger, max_chars, max_lines, prog, audio_keys, audio_items,
                   all_subtitles, global_start_time, srt_entries, current_time>>
    /\ UNCHANGED inVars /\ UNCHANGED segVars /\ UNCHANGED durVars /\ UNCHANGED fmtVars /\ UNCHANGED alignVars /\ UNCHANGED splitVars /\ UNCHANGED repeatVars

\* gen: one iteration of the loop of generate_srt (one key of the ordering list)
GenStep ==
    /\ prog = "gen" /\ pc = "loop" /\ key_i <= Len(audio_keys)
    /\ LET key == audio_keys[key_i]
       IN  IF key \notin DOMAIN audio_items
           THEN /\ key_i' = key_i + 1
                /\ UNCHANGED <<pc, srt_entries, current_time>>
           ELSE IF CalculateRaises(convert_vvproj_to_audioquery(audio_items[key].query))
           THEN /\ pc' = "raised"
                /\ UNCHANGED <<key_i, srt_entries, current_time>>
           ELSE /\ srt_entries' = GenEntries(audio_items[key], current_time, srt_entries)
                /\ current_time' = current_time + GenAdvance(audio_items[key])
                /\ key_i' = key_i + 1
                /\ pc' = pc
    /\ UNCHANGED <<tagger, max_chars, max_lines, prog, audio_keys, audio_items,
                   all_subtitles, global_start_time>>
    /\ UNCHANGED inVars /\ UNCHANGED segVars /\ UNCHANGED durVars /\ UNCHANGED fmtVars /\ UNCHANGED alignVars /\ UNCHANGED splitVars /\ UNCHANGED repeatVars

\* gen: the entries are written to the file
GenWrite ==
    /\ prog = "gen" /\ pc = "loop" /\ key_i > Len(audio_keys)
    /\ pc' = "done"
    /\ UNCHANGED <<tagger, max_chars, max_lines, prog, audio_keys, audio_items, key_i,
                   all_subtitles, global_start_time, srt_entries, current_time>>
    /\ UNCHANGED inVars /\ UNCHANGED segVars /\ UNCHANGED durVars /\ UNCHANGED fmtVars /\ UNCHANGED alignVars /\ UNCHANGED splitVars /\ UNCHANGED repeatVars

Next == NsgStart \/ NsgPass1 \/ NsgPass2 \/ NsgPass3 \/ GenStart \/ GenStep \/ GenWrite

Spec == Init /\ [][Next]_vars

----------------------------------------------------------------------------
(* Properties of the segmenters *)

\* str.split("\n")
RECURSIVE SplitNLLoop(_, _, _)
SplitNLLoop(s, cur, acc) ==
    IF s = <<>> THEN Append(acc, cur)
    ELSE IF Head(s) = "\n" THEN SplitNLLoop(Tail(s), <<>>, Append(acc, cur))
    ELSE SplitNLLoop(Tail(s), Append(cur, Head(s)), acc)

SplitNL(s) == SplitNLLoop(s, <<>>, <<>>)

NonSpace(s) == SelectSeq(s, LAMBDA c : ~IsSpace(c))

\* every token the tagger returns has at most max_chars characters
TokensFit == tagger = "char" \/ (tagger = "word" /\ WordLen <= max_chars)

\* C4 (as claimed): with a tokenizer whose tokens have at most max_chars
\* characters, every line of smart_split_text(text, max_chars) has at most
\* max_chars characters.
C4_LinesWithinMaxChars ==
    (pc # "start" /\ TokensFit) => \A i \in 1..Len(lines) : Len(lines[i]) <= max_chars

\* C5: every newline-separated line of every cue text of split_text_smart has at
\* most max_chars characters, and so has every piece of _split_text_recursive.
C5_SegmentsWithinMaxChars ==
    pc = "done" =>
        /\ \A i \in 1..Len(segments) :
               \A j \in 1..Len(SplitNL(segments[i])) : Len(SplitNL(segments[i])[j]) <= max_chars
        /\ LET pieces == _split_text_recursive(text, max_chars)
           IN  \A i \in 1..Len(pieces) : Len(pieces[i]) <= max_chars

\* C6 (as claimed): every cue text, split on line breaks, has at most max_lines
\* lines, for the chunks of split_lines_by_max_lines and for split_text_smart.
C6_CueLinesWithinMaxLines ==
    pc = "done" =>
        /\ \A c \in 1..Len(line_chunks) : Len(SplitNL(JoinLines(line_chunks[c]))) <= max_lines
        /\ \A i \in 1..Len(segments) : Len(SplitNL(segments[i])) <= max_lines

\* the part of C6 about split_lines_by_max_lines alone
C6_ChunksWithinMaxLines ==
    pc = "done" =>
        \A c \in 1..Len(line_chunks) : Len(SplitNL(JoinLines(line_chunks[c]))) <= max_lines

NonBlank(t) == Strip(t) # <<>>

\* C7 (as claimed): a non-blank text of at most max_chars characters comes back
\* as the one-element list [text] from both segmenters.
C7_ShortTextUnchanged ==
    (pc = "done" /\ NonBlank(text) /\ Len(text) <= max_chars) =>
        lines = <<text>> /\ segments = <<text>>

\* no line break, and no blank first, last or directly after a sentence end
NoBoundaryBlank(t) ==
    /\ \A i \in 1..Len(t) : t[i] # "\n"
    /\ t # <<>> => ~IsSpace(t[1]) /\ ~IsSpace(t[Len(t)])
    /\ \A i \in 1..(Len(t) - 1) : t[i] \in {".", "!", "?"} => ~IsSpace(t[i + 1])

\* C7 (amended): a non-blank text of at most max_chars characters that has no
\* line break and no blank at its start, at its end or directly after a
\* sentence-ending mark comes back as [text] from smart_split_text; every text
\* of at most max_chars characters comes back as [text] from split_text_smart.
C7_ShortTextUnchangedAmended ==
    (pc = "done" /\ Len(text) <= max_chars) =>
        /\ segments = <<text>>
        /\ (NonBlank(text) /\ NoBoundaryBlank(text)) => lines = <<text>>

\* C7 witness: a short text of two sentences with a blank inside came back
\* whole from both segmenters
C7_Witness ==
    /\ pc = "done" /\ Len(text) <= max_chars /\ NoBoundaryBlank(text)
    /\ \E i \in 2..(Len(text) - 1) : IsSpace(text[i])
    /\ \E i \in 1..(Len(text) - 1) : text[i] = "."
    /\ lines = <<text>> /\ segments = <<text>>

\* C8: the lines of smart_split_text, concatenated in order, hold the non-blank
\* characters of text, each once and in the original order.
C8_NonLossRoundTrip ==
    pc # "start" => NonSpace(Flatten(lines)) = NonSpace(text)

\* C8 witness: a text that was packed, force-split and re-chunked by the
\* short-line merge
C8_Witness ==
    /\ pc = "done" /\ tagger # "none"
    /\ Len(text) > max_chars
    /\ Len(lines) >= 2
    /\ LET packed == PackLoop(fugashi_segment_text(text), max_chars, <<>>, <<>>)
       IN  /\ lines # packed
           /\ \E i \in 1..Len(packed) : Len(packed[i]) > max_chars

----------------------------------------------------------------------------
(* One duration calculation *)

MaxMoras == 3
MaxVowelMs == 100

\* a mora of v ms of vowel and c ms of consonant (c < 0: no consonant)
Mora(v, c) == [vowel |-> "a", vowel_length |-> Rat(v),
               consonant_length |-> IF c < 0 THEN None ELSE Rat(c), pitch |-> "f0"]

PauseMora(v) == <<[vowel |-> "pau", vowel_length |-> Rat(v), consonant_length |-> None,
                   pitch |-> "0"]>>

Phrase(ms, pm) == [moras |-> ms, pause_mora |-> pm]

DurMoras == {Mora(v, c) : v \in {80, 100, 120}, c \in {-1, 0, 48}}

DurPhraseLists ==
    {<<Phrase(ms, pm)>> : ms \in SeqsUpTo(DurMoras, MaxMoras), pm \in {None, PauseMora(300)}}
        \cup {<<Phrase(<<Mora(v, -1)>>, None)>> : v \in 0..MaxVowelMs}
        \cup {<<Phrase(<<a>>, PauseMora(300)), Phrase(<<b>>, pm)>> :
                  a \in DurMoras, b \in DurMoras, pm \in {None, PauseMora(16)}}

AudioQuery(phrases, speed, pre, post, pl, pls) ==
    [accent_phrases |-> phrases, speedScale |-> speed,
     pitchScale |-> <<0, 1>>, intonationScale |-> <<1, 1>>,
     prePhonemeLength |-> Rat(pre), postPhonemeLength |-> Rat(post),
     pauseLength |-> IF pl < 0 THEN None ELSE Rat(pl), pauseLengthScale |-> pls]

InitDur ==
    /\ \E phrases \in DurPhraseLists, speed \in {<<1, 1>>, <<2, 1>>, <<3, 2>>},
          pre \in {0, 100}, post \in {100, 1000},
          pl \in {-1, 500}, pls \in {<<1, 1>>, <<1, 2>>} :
            query = AudioQuery(phrases, speed, pre, post, pl, pls)
    /\ processed_moras = <<>> /\ frame_per_mora = <<>> /\ duration = 0
    /\ query_data = <<>>
    /\ pc = "start"
    /\ tagger = "none" /\ max_chars = 0 /\ max_lines = 0
    /\ IdleSeg /\ IdleRun /\ IdleFmt /\ IdleAlign /\ IdleSplit /\ IdleRepeat

\* duration = VOICEVOXOfficialCalculator.calculate_accurate_duration(query)
\* (an exception leaves the function without a result; the partly rewritten
\* query is dropped with it)
CalculateAccurateDuration ==
    /\ pc = "start"
    /\ IF CalculateRaises(query)
       THEN /\ pc' = "raised"
            /\ UNCHANGED <<query, processed_moras, frame_per_mora, duration>>
       ELSE /\ processed_moras' = ProcessedMoras(query)
            /\ frame_per_mora' = _count_frame_per_unit(ProcessedMoras(query))
            /\ duration' = calculate_accurate_duration(query)
            /\ query' = QueryAfterCall(query)
            /\ pc' = "done"
    /\ UNCHANGED <<tagger, max_chars, max_lines, query_data>>
    /\ UNCHANGED segVars /\ UNCHANGED runVars /\ UNCHANGED fmtVars /\ UNCHANGED alignVars /\ UNCHANGED splitVars /\ UNCHANGED repeatVars

NextDur == CalculateAccurateDuration

SpecDur == InitDur /\ [][NextDur]_vars

\* n/d frames is the exact frame count of a length
ExactFrames(len) == RatMul(len, FRAMERATE)

\* r is x = n/d rounded half to even: the even neighbour on a tie, else the nearest
IsHalfEvenOf(r, x) ==
    LET n == x[1]
        d == x[2]
        dist == IF r * d >= n THEN r * d - n ELSE n - r * d
    IN  IF 2 * (n % d) = d THEN 2 * dist = d /\ r % 2 = 0
        ELSE 2 * dist < d

\* C9: _to_frame rounds the exact frame count (length * 93.75/s) half to even:
\* on a tie k + 0.5 the even one of k and k + 1, otherwise the nearest integer;
\* 16 ms (1.5 frames) gives 2 and 48 ms (4.5 frames) gives 4.
C9_ToFrameHalfEven ==
    pc = "done" =>
        /\ \A i \in 1..Len(processed_moras) :
               processed_moras[i].consonant_length = None =>
                   IsHalfEvenOf(frame_per_mora[i], ExactFrames(processed_moras[i].vowel_length))
        /\ \A i \in 1..Len(processed_moras) :
               /\ processed_moras[i].consonant_length = None
               /\ processed_moras[i].vowel_length \in {Rat(16), Rat(48)}
               => frame_per_mora[i] = (IF processed_moras[i].vowel_length = Rat(16) THEN 2 ELSE 4)

\* C9 witness: a 48 ms mora (4.5 frames) was counted as 4 frames
C9_Witness ==
    /\ pc = "done"
    /\ \E i \in 1..Len(processed_moras) :
          /\ processed_moras[i].vowel = "a"
          /\ processed_moras[i].vowel_length = Rat(48)
          /\ processed_moras[i].consonant_length = None
          /\ frame_per_mora[i] = 4

\* the query of the example: one accent phrase of three moras of 100, 120 and
\* 80 ms, no consonants, no pause mora, 100 ms of silence before and after
ExampleQuery ==
    AudioQuery(<<Phrase(<<Mora(100, -1), Mora(120, -1), Mora(80, -1)>>, None)>>,
               <<1, 1>>, 100, 100, -1, <<1, 1>>)

\* C10 (as claimed): the example query gives the six-term frame sum
\* to_frame(0.1) + to_frame(0.1) + to_frame(0.12) + to_frame(0.08) + to_frame(0.1)
\* + to_frame(0.1).
C10_ExampleSixTerms ==
    (pc = "done" /\ query = ExampleQuery) =>
        duration = _to_frame(Rat(100)) + _to_frame(Rat(100)) + _to_frame(Rat(120))
                   + _to_frame(Rat(80)) + _to_frame(Rat(100)) + _to_frame(Rat(100))

\* C10 (amended): the example query gives the five-term frame sum, one term per
\* unit: the leading silence, the three moras and the trailing silence, which
\* is 9 + 9 + 11 + 8 + 9 = 46 frames.
C10_ExampleFiveTerms ==
    (pc = "done" /\ query = ExampleQuery) =>
        /\ duration = _to_frame(Rat(100)) + _to_frame(Rat(100)) + _to_frame(Rat(120))
                      + _to_frame(Rat(80)) + _to_frame(Rat(100))
        /\ duration = 46
        /\ Len(frame_per_mora) = 5

\* C10 witness: the example query has been calculated
C10_Witness == pc = "done" /\ query = ExampleQuery /\ frame_per_mora = <<9, 9, 11, 8, 9>>

----------------------------------------------------------------------------
(* Properties of a conversion run *)

\* the cue list of convert_vvproj_to_srt_with_perfect_timing has been through Pass 2
AfterPass2 == prog = "nsg" /\ pc \in {"pass3", "done"}

\* a formatted time <<hh, mm, ss, mmm>> in milliseconds
ToMs(t) == ((t[1] * 60 + t[2]) * 60 + t[3]) * 1000 + t[4]

\* C1: every cue but the last ends where the next one starts, in the cue
\* list after Pass 2 and in the entries generate_srt emits (and in the
\* formatted times of both files)
C1_Contiguity ==
    /\ AfterPass2 =>
           \A i \in 1..(Len(all_subtitles) - 1) :
               all_subtitles[i].end_time = all_subtitles[i + 1].start_time
    /\ \A i \in 1..(Len(srt_entries) - 1) :
           srt_entries[i].end_time = srt_entries[i + 1].start_time

\* a finished run with two cues or more in which the end Pass 1 computed for
\* a cue (start + chunk duration) was not the start of the next cue
C1_Witness ==
    /\ AfterPass2 /\ pc = "done" /\ Len(srt_entries) >= 2
    /\ \E i \in 1..(Len(all_subtitles) - 1) :
           all_subtitles[i].start_time + all_subtitles[i].duration
               # all_subtitles[i + 1].start_time

\* the sum of totalDuration over the utterances Pass 1 did not skip
TotalOfProcessed ==
    SumSeq([i \in 1..Len(audio_keys) |->
               IF /\ audio_keys[i] \in DOMAIN audio_items
                  /\ NonBlank(audio_items[audio_keys[i]].text)
                  /\ Len(audio_items[audio_keys[i]].query.accentPhrases) > 0
               THEN calculate_audio_duration(audio_items[audio_keys[i]].query)
               ELSE 0])

\* C2: when a cue is emitted, the end of the last cue is the sum of
\* totalDuration over exactly the utterances that were not skipped
C2_LastEndIsTotal ==
    (AfterPass2 /\ Len(all_subtitles) >= 1) =>
        /\ all_subtitles[Len(all_subtitles)].end_time = TotalOfProcessed
        /\ pc = "done" =>
               srt_entries[Len(srt_entries)].end_time = format_srt_time(TotalOfProcessed)

\* a finished run that emitted a cue, processed an utterance of positive
\* totalDuration that produced no cue at all, and whose last cue did not
\* end at its Pass 1 end
C2_Witness ==
    /\ AfterPass2 /\ pc = "done" /\ Len(all_subtitles) >= 1
    /\ \E i \in 1..Len(audio_keys) :
           /\ NsgProcessed(audio_items, audio_keys[i])
           /\ calculate_audio_duration(audio_items[audio_keys[i]].query) > 0
           /\ Pass1Cues(audio_items[audio_keys[i]], 0, max_chars, max_lines) = <<>>
    /\ LET last == all_subtitles[Len(all_subtitles)]
       IN  last.start_time + last.duration # last.end_time

\* every phoneme and silence length of the project is non-negative
\* (lengths are natural numbers of milliseconds in every record)
NonNegativeLengths ==
    \A k \in DOMAIN audio_items :
        LET q == audio_items[k].query
        IN  /\ Get(q.prePhonemeLength, 0) >= 0 /\ Get(q.postPhonemeLength, 0) >= 0
            /\ \A i \in 1..Len(q.accentPhrases) :
                   /\ \A j \in 1..Len(q.accentPhrases[i].moras) :
                          /\ Get(q.accentPhrases[i].moras[j].vowelLength, 0) >= 0
                          /\ Get(q.accentPhrases[i].moras[j].consonantLength, 0) >= 0
                   /\ \A j \in 1..Len(q.accentPhrases[i].pauseMora) :
                          Get(q.accentPhrases[i].pauseMora[j].vowelLength, 0) >= 0

\* C3: cues never overlap: every cue after Pass 2, and every entry of
\* generate_srt, ends strictly after it starts
C3_PositiveLength ==
    NonNegativeLengths =>
        /\ AfterPass2 =>
               \A i \in 1..Len(all_subtitles) :
                   all_subtitles[i].start_time < all_subtitles[i].end_time
        /\ prog = "gen" =>
               \A i \in 1..Len(srt_entries) :
                   ToMs(srt_entries[i].start_time) < ToMs(srt_entries[i].end_time)

----------------------------------------------------------------------------
(* src/nsg-customized/gen-srt-from-vvproj.py: EmotionalExpressionHandler,   *)
(* NaturalSegmentator and VOICEVOXSRTGenerator (the "emo" program).  Its    *)
(* VOICEVOXOfficialCalculator is the one of voicevox_srt_generator.py.      *)

\* the characters of the model among those of EMOTION_PATTERN
EmotionChars == {".", "!", "?", ","}

RECURSIVE TrailingRun(_)
TrailingRun(s) ==
    IF s # <<>> /\ s[Len(s)] \in EmotionChars
    THEN 1 + TrailingRun(SubSeq(s, 1, Len(s) - 1)) ELSE 0

\* re.search(EMOTION_PATTERN, text): a run of two or more marks that ends at
\* the end of the text, or just before a line break that ends the text
analyze_emotional_expression(t) ==
    LET e == IF t # <<>> /\ t[Len(t)] = "\n" THEN Len(t) - 1 ELSE Len(t)
        run == TrailingRun(SubSeq(t, 1, e))
    IN  IF run >= 2
        THEN [has_emotion |-> TRUE,
              base_text |-> SubSeq(t, 1, e - run),
              emotion_part |-> SubSeq(t, e - run + 1, e)]
        ELSE [has_emotion |-> FALSE, base_text |-> t, emotion_part |-> <<>>]

is_chars_allowed_with_emotion(t, mc) ==
    \/ Len(t) <= mc
    \/ /\ analyze_emotional_expression(t).has_emotion
       /\ Len(analyze_emotional_expression(t).base_text) <= mc

is_meaningless_punctuation(t) ==
    LET stripped == Strip(t)
    IN  \/ stripped = <<>>
        \/ Len(stripped) <= 1 /\ stripped[1] \in EmotionChars

RECURSIVE SimpleSegLoop(_, _, _)
SimpleSegLoop(s, cur, segs) ==
    IF s = <<>> THEN (IF cur # <<>> THEN Append(segs, cur) ELSE segs)
    ELSE LET test_text == Append(cur, Head(s))
         IN  IF is_chars_allowed_with_emotion(test_text, MAX_CHARS)
             THEN SimpleSegLoop(Tail(s), test_text, segs)
             ELSE SimpleSegLoop(Tail(s), <<Head(s)>>,
                                IF cur # <<>> THEN Append(segs, cur) ELSE segs)

_simple_segmentation(t) == SimpleSegLoop(t, <<>>, <<>>)

\* the grouping loop over words (or characters): <<current, segments>>
RECURSIVE GroupLoop(_, _, _, _)
GroupLoop(words, mc, cur, segs) ==
    IF words = <<>> THEN <<cur, segs>>
    ELSE IF Len(cur) + Len(Head(words)) <= mc
         THEN GroupLoop(Tail(words), mc, cur \o Head(words), segs)
         ELSE GroupLoop(Tail(words), mc, Head(words),
                        IF cur # <<>> THEN Append(segs, cur) ELSE segs)

\* the end of both splitters: the emotional expression goes to the last part
WithEmotion(r, emotion_part) ==
    IF r[1] # <<>> THEN Append(r[2], r[1] \o emotion_part)
    ELSE IF r[2] # <<>>
    THEN [r[2] EXCEPT ![Len(r[2])] = @ \o emotion_part]
    ELSE r[2]

_mecab_segmentation(t) ==
    LET a == analyze_emotional_expression(t)
    IN  IF a.has_emotion
        THEN WithEmotion(GroupLoop(Tokenize(a.base_text), MAX_CHARS, <<>>, <<>>),
                         a.emotion_part)
        ELSE LET r == GroupLoop(Tokenize(t), MAX_CHARS, <<>>, <<>>)
             IN  IF r[1] # <<>> THEN Append(r[2], r[1]) ELSE r[2]

_force_split_with_emotion(t, mc) ==
    LET a == analyze_emotional_expression(t)
        chars(s) == [i \in 1..Len(s) |-> <<s[i]>>]
    IN  IF a.has_emotion
        THEN WithEmotion(GroupLoop(chars(a.base_text), mc, <<>>, <<>>), a.emotion_part)
        ELSE LET r == GroupLoop(chars(t), mc, <<>>, <<>>)
             IN  IF r[1] # <<>> THEN Append(r[2], r[1]) ELSE r[2]

\* the sentence loop of _get_natural_break_points from offset i (0-based) on
RECURSIVE SentenceLoop(_, _, _, _)
SentenceLoop(t, i, cur, sentences) ==
    IF i >= Len(t)
    THEN (IF Strip(cur) # <<>> THEN Append(sentences, Strip(cur)) ELSE sentences)
    ELSE LET c == Append(cur, t[i + 1])
         IN  IF t[i + 1] \in {".", "!", "?"}
             THEN LET n == CHOOSE k \in 0..Len(t) :
                               /\ \A m \in 1..k : i + 1 + m <= Len(t) /\ t[i + 1 + m] \in EmotionChars
                               /\ ~(i + 2 + k <= Len(t) /\ t[i + 2 + k] \in EmotionChars)
                      full == c \o SubSeq(t, i + 2, i + 1 + n)
                  IN  IF Strip(full) # <<>>
                      THEN SentenceLoop(t, i + n + 1, <<>>, Append(sentences, Strip(full)))
                      ELSE SentenceLoop(t, i + n + 1, full, sentences)
             ELSE SentenceLoop(t, i + 1, c, sentences)

_get_natural_break_points(t) ==
    IF tagger = "none" THEN _simple_segmentation(t)
    ELSE LET sentences == SentenceLoop(t, 0, <<>>, <<>>)
         IN  Flatten([i \in 1..Len(sentences) |->
                         IF is_chars_allowed_with_emotion(sentences[i], MAX_CHARS)
                         THEN <<sentences[i]>>
                         ELSE _mecab_segmentation(sentences[i])])

\* the loop of _enforce_limits_with_emotion over the parts of all segments:
\* <<current_lines, result>>
RECURSIVE EnforceLoop(_, _, _, _, _)
EnforceLoop(parts, mc, ml, current_lines, result) ==
    IF parts = <<>> THEN <<current_lines, result>>
    ELSE LET part == Head(parts)
         IN  IF Len(current_lines) < ml
             THEN IF current_lines = <<>>
                  THEN EnforceLoop(Tail(parts), mc, ml, <<part>>, result)
                  ELSE IF is_chars_allowed_with_emotion(
                              current_lines[Len(current_lines)] \o part, mc)
                  THEN EnforceLoop(Tail(parts), mc, ml,
                                   [current_lines EXCEPT ![Len(current_lines)] = @ \o part],
                                   result)
                  ELSE EnforceLoop(Tail(parts), mc, ml, Append(current_lines, part), result)
             ELSE EnforceLoop(Tail(parts), mc, ml, <<part>>,
                              Append(result, JoinLines(current_lines)))

_enforce_limits_with_emotion(segs, mc, ml) ==
    IF segs = <<>> THEN <<>>
    ELSE LET parts == Flatten([i \in 1..Len(segs) |->
                                  IF ~is_chars_allowed_with_emotion(segs[i], mc)
                                  THEN _force_split_with_emotion(segs[i], mc)
                                  ELSE <<segs[i]>>])
             r == EnforceLoop(parts, mc, ml, <<>>, <<>>)
         IN  IF r[1] # <<>> THEN Append(r[2], JoinLines(r[1])) ELSE r[2]

segment_text(t, mc, ml) ==
    IF Strip(t) = <<>> THEN <<>>
    ELSE LET meaningful_segments ==
                 SelectSeq(_get_natural_break_points(t),
                           LAMBDA seg : ~is_meaningless_punctuation(seg))
         IN  IF meaningful_segments = <<>> THEN <<>>
             ELSE _enforce_limits_with_emotion(meaningful_segments, mc, ml)

\* _vvproj_to_audio_query: as convert_vvproj_to_audioquery, but the pause mora
\* keeps the vowel of the project file
_vvproj_to_audio_query(audio_item) ==
    LET q == convert_vvproj_to_audioquery(audio_item.query)
    IN  [q EXCEPT !.accent_phrases =
            [i \in 1..Len(q.accent_phrases) |->
                [q.accent_phrases[i] EXCEPT !.pause_mora =
                    IF @ # None
                    THEN <<[@[1] EXCEPT
                              !.vowel = audio_item.query.accentPhrases[i].pauseMora[1].vowel]>>
                    ELSE @]]]

\* _seconds_to_srt_time of a time of x = n/d milliseconds: <<hh, mm, ss, mmm>>,
\* the milliseconds cut off, not rounded
SecondsToSrtTimeMs(x) ==
    LET whole == x[1] \div x[2]
    IN  <<whole \div 3600000, (whole % 3600000) \div 60000,
          (whole % 60000) \div 1000, whole % 1000>>

\* _seconds_to_srt_time of a time of n/d frames
_seconds_to_srt_time(t) == SecondsToSrtTimeMs(RatDiv(t, FRAMERATE))

\* the entries one iteration of _generate_srt_entries appends, from segment
\* j (0-based) on; every segment gets the same share of the duration
RECURSIVE EmoEntryLoop(_, _, _, _, _)
EmoEntryLoop(segs, j, cur, dur, entries) ==
    IF j >= Len(segs) THEN entries
    ELSE IF Strip(segs[j + 1]) = <<>> THEN EmoEntryLoop(segs, j + 1, cur, dur, entries)
    ELSE EmoEntryLoop(segs, j + 1, cur, dur,
             Append(entries,
                    [index |-> Len(entries) + 1,
                     start_time |-> _seconds_to_srt_time(<<cur * Len(segs) + j * dur, Len(segs)>>),
                     end_time |-> _seconds_to_srt_time(<<cur * Len(segs) + (j + 1) * dur, Len(segs)>>),
                     text |-> Strip(segs[j + 1])]))

EmoEntries(audio_item, cur, entries) ==
    EmoEntryLoop(segment_text(audio_item.text, MAX_CHARS, MAX_LINES), 0, cur,
                 calculate_accurate_duration(_vvproj_to_audio_query(audio_item)), entries)

EmoAdvance(audio_item) == calculate_accurate_duration(_vvproj_to_audio_query(audio_item))

----------------------------------------------------------------------------
(* src/voicevox-srt.py (the "orig" program).  Its tagger is mandatory; with *)
(* a tagger, fugashi_segment_text, token_based_split, calculate_audio_duration *)
(* and format_srt_time are the functions of voicevox-srt-nsg.py.            *)

\* split_long_segment: no run of punctuation is moved to the line before
RECURSIVE OrigSplitLongLoop(_, _, _)
OrigSplitLongLoop(remaining, mc, result) ==
    IF Len(remaining) > mc
    THEN LET chunk == Take(remaining, mc)
             found == LastPunct(chunk)
             split_index == IF found = -1 \/ 2 * found < mc THEN mc ELSE found
         IN  OrigSplitLongLoop(Drop(remaining, split_index), mc,
                               Append(result, Strip(Take(remaining, split_index))))
    ELSE IF remaining # <<>> THEN Append(result, Strip(remaining)) ELSE result

orig_split_long_segment(segment, mc) == OrigSplitLongLoop(segment, mc, <<>>)

\* adjust_line_breaks: a line is merged with the next one when the next one is
\* shorter than min_line_length
RECURSIVE OrigAdjustLoop(_, _, _, _)
OrigAdjustLoop(ls, i, mc, new_lines) ==
    IF i > Len(ls) THEN new_lines
    ELSE IF i < Len(ls) /\ Len(Strip(ls[i + 1])) < min_line_length
         THEN OrigAdjustLoop(ls, i + 2, mc,
                  new_lines \o token_based_split(Strip(ls[i]) \o Strip(ls[i + 1]), mc))
         ELSE OrigAdjustLoop(ls, i + 1, mc, Append(new_lines, ls[i]))

orig_adjust_line_breaks(ls, mc) == OrigAdjustLoop(ls, 1, mc, <<>>)

RECURSIVE OrigPackLoop(_, _, _, _)
OrigPackLoop(segs, mc, cur, out) ==
    IF segs = <<>> THEN (IF cur # <<>> THEN Append(out, cur) ELSE out)
    ELSE LET seg == Strip(Head(segs))
         IN  IF seg = <<>> THEN OrigPackLoop(Tail(segs), mc, cur, out)
             ELSE IF Len(seg) > mc
             THEN OrigPackLoop(Tail(segs), mc, <<>>,
                               (IF cur # <<>> THEN Append(out, cur) ELSE out)
                                   \o orig_split_long_segment(seg, mc))
             ELSE IF Len(cur) + Len(seg) <= mc
             THEN OrigPackLoop(Tail(segs), mc, cur \o seg, out)
             ELSE OrigPackLoop(Tail(segs), mc, seg,
                               IF cur # <<>> THEN Append(out, cur) ELSE out)

\* smart_split_text: the lines joined by line breaks
orig_smart_split_text(t, mc) ==
    JoinLines(orig_adjust_line_breaks(OrigPackLoop(fugashi_segment_text(t), mc, <<>>, <<>>), mc))

\* the cue one iteration of convert_vvproj_to_srt appends for the idx-th
\* record (0-based) of the map
OrigCue(item, idx, start) ==
    [index |-> idx + 1,
     start_time |-> format_srt_time(start),
     end_time |-> format_srt_time(start + calculate_audio_duration(item.query)),
     text |-> orig_smart_split_text(item.text, max_chars)]

----------------------------------------------------------------------------
(* The runs of process_vvproj (emo) and convert_vvproj_to_srt (orig)        *)

\* emo: the list process_vvproj hands to _generate_srt_entries: talk.audioKeys,
\* or the keys of the record map when that list is absent or empty
EmoKeys == IF audio_keys = <<>> THEN item_order ELSE audio_keys

\* emo: process_vvproj loads the project; without records it raises ValueError,
\* and list(audio_items.keys()) raises AttributeError when the records are a list
EmoStart ==
    /\ prog = "emo" /\ pc = "start"
    /\ IF DOMAIN audio_items = {} \/ (audio_keys = <<>> /\ items_type # "dict")
       THEN pc' = "raised" /\ key_i' = key_i
       ELSE pc' = "loop" /\ key_i' = 1
    /\ UNCHANGED <<tagger, max_chars, max_lines, prog, audio_keys, audio_items,
                   all_subtitles, global_start_time, srt_entries, current_time>>
    /\ UNCHANGED inVars /\ UNCHANGED segVars /\ UNCHANGED durVars /\ UNCHANGED fmtVars /\ UNCHANGED alignVars /\ UNCHANGED splitVars /\ UNCHANGED repeatVars

\* emo: one iteration of the loop of _generate_srt_entries
EmoStep ==
    /\ prog = "emo" /\ pc = "loop" /\ key_i <= Len(EmoKeys)
    /\ LET audio_key == EmoKeys[key_i]
       IN  IF \/ items_type # "dict"
              \/ audio_key \notin DOMAIN audio_items
              \/ Strip(audio_items[audio_key].text) = <<>>
           THEN /\ key_i' = key_i + 1
                /\ UNCHANGED <<pc, srt_entries, current_time>>
           ELSE IF CalculateRaises(_vvproj_to_audio_query(audio_items[audio_key]))
           THEN /\ pc' = "raised"
                /\ UNCHANGED <<key_i, srt_entries, current_time>>
           ELSE /\ srt_entries' = EmoEntries(audio_items[audio_key], current_time, srt_entries)
                /\ current_time' = current_time + EmoAdvance(audio_items[audio_key])
                /\ key_i' = key_i + 1
                /\ pc' = pc
    /\ UNCHANGED <<tagger, max_chars, max_lines, prog, audio_keys, audio_items,
                   all_subtitles, global_start_time>>
    /\ UNCHANGED inVars /\ UNCHANGED segVars /\ UNCHANGED durVars /\ UNCHANGED fmtVars /\ UNCHANGED alignVars /\ UNCHANGED splitVars /\ UNCHANGED repeatVars

\* emo: _write_srt_file writes the entries
EmoWrite ==
    /\ prog = "emo" /\ pc = "loop" /\ key_i > Len(EmoKeys)
    /\ pc' = "done"
    /\ UNCHANGED <<tagger, max_chars, max_lines, prog, audio_keys, audio_items, key_i,
                   all_subtitles, global_start_time, srt_entries, current_time>>
    /\ UNCHANGED inVars /\ UNCHANGED segVars /\ UNCHANGED durVars /\ UNCHANGED fmtVars /\ UNCHANGED alignVars /\ UNCHANGED splitVars /\ UNCHANGED repeatVars

\* orig: the project is loaded; no records end the run, and records that are
\* a list make audio_items.items() raise AttributeError
OrigStart ==
    /\ prog = "orig" /\ pc = "start"
    /\ IF DOMAIN audio_items = {} THEN pc' = "aborted" /\ key_i' = key_i
       ELSE IF items_type # "dict" THEN pc' = "raised" /\ key_i' = key_i
       ELSE pc' = "loop" /\ key_i' = 1
    /\ UNCHANGED <<tagger, max_chars, max_lines, prog, audio_keys, audio_items,
                   all_subtitles, global_start_time, srt_entries, current_time>>
    /\ UNCHANGED inVars /\ UNCHANGED segVars /\ UNCHANGED durVars /\ UNCHANGED fmtVars /\ UNCHANGED alignVars /\ UNCHANGED splitVars /\ UNCHANGED repeatVars

\* orig: one iteration of the loop over audio_items.items()
OrigStep ==
    /\ prog = "orig" /\ pc = "loop" /\ key_i <= Len(item_order)
    /\ LET item == audio_items[item_order[key_i]]
       IN  /\ srt_entries' = Append(srt_entries, OrigCue(item, key_i - 1, global_start_time))
           /\ global_start_time' = global_start_time + calculate_audio_duration(item.query)
    /\ key_i' = key_i + 1
    /\ UNCHANGED <<tagger, max_chars, max_lines, pc, prog, audio_keys, audio_items,
                   all_subtitles, current_time>>
    /\ UNCHANGED inVars /\ UNCHANGED segVars /\ UNCHANGED durVars /\ UNCHANGED fmtVars /\ UNCHANGED alignVars /\ UNCHANGED splitVars /\ UNCHANGED repeatVars

\* orig: the cues are written to the file
OrigWrite ==
    /\ prog = "orig" /\ pc = "loop" /\ key_i > Len(item_order)
    /\ pc' = "done"
    /\ UNCHANGED <<tagger, max_chars, max_lines, prog, audio_keys, audio_items, key_i,
                   all_subtitles, global_start_time, srt_entries, current_time>>
    /\ UNCHANGED inVars /\ UNCHANGED segVars /\ UNCHANGED durVars /\ UNCHANGED fmtVars /\ UNCHANGED alignVars /\ UNCHANGED splitVars /\ UNCHANGED repeatVars

----------------------------------------------------------------------------
(* Conversion runs on arbitrary project files: talk.audioKeys and           *)
(* talk.audioItems of any JSON type, records with blank text, records whose *)
(* query has a speed scale of 0                                             *)

RawQuerySpeed(phrases, pre, post, speed) ==
    [RawQuery(phrases, pre, post) EXCEPT !.speedScale = speed]

OnePhrase == <<RawPhrase(<<RawMora(100), RawMoraC(16, 48)>>, None)>>

ThreePhrases ==
    <<RawPhrase(<<RawMora(300)>>, RawPause(300)),
      RawPhrase(<<RawMora(10)>>, RawPause(10)),
      RawPhrase(<<RawMora(10)>>, RawPause(10))>>

TwoPhrases ==
    <<RawPhrase(<<RawMora(100), RawMora(100)>>, RawPause(300)),
      RawPhrase(<<RawMora(100)>>, None)>>

\* the records of a project: plain ones, two of several chunks (the lines of
\* the second lose a blank the text has), one too long
\* for a cue and one too long for two, blank ones, one of speed scale 0
AllItems ==
    {Item(<<"k", "k">>, RawQuery(OnePhrase, Num(100), None)),
     Item(<<"k", ".", "k", ".", "k", ".">>, RawQuery(ThreePhrases, Num(0), Num(0))),
     Item(<<"k", "k", ".", " ", "k">>, RawQuery(TwoPhrases, Num(100), Num(100))),
     Item(Rep("k", MAX_CHARS + 1), RawQuery(OnePhrase, Num(100), Num(100))),
     Item(Rep("k", 2 * MAX_CHARS + 1), RawQuery(OnePhrase, Num(100), Num(100))),
     Item(<<" ">>, RawQuery(OnePhrase, Num(100), None)),
     Item(<<>>, RawQuery(OnePhrase, Num(0), Num(0))),
     Item(<<"k", "k">>, RawQuerySpeed(OnePhrase, Num(100), None, <<0, 1>>))}

\* the orders a file can list the keys of D in
Orders(D) == {o \in SeqsUpTo(D, Cardinality(D)) :
                 Len(o) = Cardinality(D) /\ \A i, j \in 1..Len(o) : i # j => o[i] # o[j]}

Programs == {"nsg", "gen", "emo", "orig"}

\* audio_keys holds what iterating talk.audioKeys yields (the elements of a
\* list, the keys of a dict, nothing when it is absent); audio_items holds the
\* record map, or the records of a list in file order
InitAll ==
    /\ prog \in Programs
    /\ tagger \in IF prog = "orig" THEN Taggers \ {"none"} ELSE Taggers
    /\ CASE prog = "nsg" -> max_chars = 3 /\ max_lines \in {1, 2}
         [] prog = "orig" -> max_chars = 3 /\ max_lines = 0
         [] OTHER -> max_chars = MAX_CHARS /\ max_lines = MAX_LINES
    /\ keys_type \in {"list", "dict", "absent"}
    /\ items_type \in {"dict", "list", "absent"}
    /\ audio_keys \in CASE keys_type = "list" -> SeqsUpTo(Keys, MaxKeys)
                       [] keys_type = "dict" -> UNION {Orders(D) : D \in SUBSET Keys}
                       [] OTHER -> {<<>>}
    /\ audio_items \in CASE items_type = "dict" -> UNION {[D -> AllItems] : D \in SUBSET Keys}
                        [] items_type = "list" -> SeqsUpTo(AllItems, 1)
                        [] OTHER -> {<<>>}
    /\ item_order \in IF items_type = "dict" THEN Orders(DOMAIN audio_items) ELSE {<<>>}
    /\ key_i = 0
    /\ all_subtitles = <<>> /\ global_start_time = 0
    /\ srt_entries = <<>> /\ current_time = 0
    /\ pc = "start"
    /\ IdleSeg /\ IdleDur /\ IdleFmt /\ IdleAlign /\ IdleSplit /\ IdleRepeat

NextAll == Next \/ EmoStart \/ EmoStep \/ EmoWrite \/ OrigStart \/ OrigStep \/ OrigWrite

SpecAll == InitAll /\ [][NextAll]_vars

\* a key of the ordering list has a record whose query has a speed scale of 0
ZeroSpeedListed ==
    /\ items_type = "dict"
    /\ \E i \in 1..Len(audio_keys) :
          /\ audio_keys[i] \in DOMAIN audio_items
          /\ audio_items[audio_keys[i]].query.speedScale = <<0, 1>>

\* C11 (as claimed): a project with a query of speed scale 0 is turned down
\* when the input is validated: the run of convert_vvproj_to_srt_with_perfect_timing
\* or generate_srt never enters its loop over the utterances and emits no cue.
C11_ZeroSpeedRejected ==
    (prog \in {"nsg", "gen"} /\ ZeroSpeedListed) =>
        /\ pc \in {"start", "aborted", "raised"}
        /\ key_i = 0
        /\ all_subtitles = <<>> /\ srt_entries = <<>>


\* talk.audioKeys or talk.audioItems is absent, empty or of the wrong type
MalformedProject ==
    \/ keys_type # "list" \/ audio_keys = <<>>
    \/ items_type # "dict" \/ DOMAIN audio_items = {}

\* C12 (as claimed): when the ordering list or the record map is absent, empty
\* or of the wrong type, the run of convert_vvproj_to_srt_with_perfect_timing,
\* generate_srt or process_vvproj stops before its loop over the utterances and
\* never writes a file.
C12_MalformedProjectAborts ==
    (prog \in {"nsg", "gen", "emo"} /\ MalformedProject) =>
        /\ pc \in {"start", "aborted", "raised"}
        /\ key_i = 0


\* the keys of a list that have a record
Present(ks) == SelectSeq(ks, LAMBDA k : items_type = "dict" /\ k \in DOMAIN audio_items)

\* Pass 1 of nsg over a list of keys that all have a record: <<cues, cursor>>
RECURSIVE NsgFold(_)
NsgFold(ks) ==
    IF ks = <<>> THEN <<<<>>, 0>>
    ELSE LET prev == NsgFold(SubSeq(ks, 1, Len(ks) - 1))
             item == audio_items[ks[Len(ks)]]
         IN  IF Strip(item.text) = <<>> \/ item.query.accentPhrases = <<>> THEN prev
             ELSE <<prev[1] \o Pass1Cues(item, prev[2], max_chars, max_lines),
                    prev[2] + Pass1Advance(item)>>

\* the loop of generate_srt over a list of keys that all have a record:
\* <<entries, running time>>
RECURSIVE GenFold(_)
GenFold(ks) ==
    IF ks = <<>> THEN <<<<>>, 0>>
    ELSE LET prev == GenFold(SubSeq(ks, 1, Len(ks) - 1))
             item == audio_items[ks[Len(ks)]]
         IN  <<GenEntries(item, prev[2], prev[1]), prev[2] + GenAdvance(item)>>

\* the loop of _generate_srt_entries over a list of keys that all have a record
RECURSIVE EmoFold(_)
EmoFold(ks) ==
    IF ks = <<>> THEN <<<<>>, 0>>
    ELSE LET prev == EmoFold(SubSeq(ks, 1, Len(ks) - 1))
             item == audio_items[ks[Len(ks)]]
         IN  IF Strip(item.text) = <<>> THEN prev
             ELSE <<EmoEntries(item, prev[2], prev[1]), prev[2] + EmoAdvance(item)>>

\* C13: a key of the ordering list without a record is skipped.  After any
\* number of iterations the cues and the cursor are those of the same loop run
\* over the keys handled so far with the keys that have no record left out;
\* so such a key adds no cue, moves no cursor, changes no earlier cue, and the
\* keys after it are handled as if it were not in the list.  The file nsg
\* writes is Pass 2 and Pass 3 of that cue list.
C13_MissingKeySkipped ==
    LET seen(ks) == Present(SubSeq(ks, 1, key_i - 1))
    IN  /\ (prog = "nsg" /\ pc = "pass1") =>
               <<all_subtitles, global_start_time>> = NsgFold(seen(audio_keys))
        /\ (prog = "nsg" /\ pc = "done") =>
               srt_entries = Pass3(Pass2(NsgFold(Present(audio_keys))[1],
                                         NsgFold(Present(audio_keys))[2]))
        /\ (prog = "gen" /\ pc \in {"loop", "raised", "done"}) =>
               <<srt_entries, current_time>> = GenFold(seen(audio_keys))
        /\ (prog = "emo" /\ pc \in {"loop", "raised", "done"}) =>
               <<srt_entries, current_time>> = EmoFold(seen(EmoKeys))

\* a finished run whose ordering list names a key without a record before a
\* key with one, and that wrote cues
C13_Witness ==
    /\ prog \in {"nsg", "gen", "emo"} /\ pc = "done" /\ srt_entries # <<>>
    /\ items_type = "dict"
    /\ \E i, j \in 1..Len(audio_keys) :
          /\ i < j
          /\ audio_keys[i] \notin DOMAIN audio_items
          /\ audio_keys[j] \in DOMAIN audio_items


\* the chunks Pass 1 cuts the text of a record into
Chunks(item) == split_lines_by_max_lines(smart_split_text(item.text, max_chars), max_lines)

\* the chunk text is not a substring of the text of the record, or the offset
\* of its first or of its last character has no entry in the position index
AlignmentMiss(chunk_text, item) ==
    LET t == item.text
        index == build_mora_list_with_text_mapping(t, item.query.accentPhrases).index
        at(o) == SubSeq(t, o + 1, o + Len(chunk_text)) = chunk_text
        Offsets == {o \in 0..(Len(t) - Len(chunk_text)) : at(o)}
    IN  \/ Offsets = {}
        \/ LET first == CHOOSE o \in Offsets : \A p \in Offsets : o <= p
           IN  first \notin DOMAIN index \/ first + Len(chunk_text) - 1 \notin DOMAIN index

\* the duration Pass 1 gives chunk i of a record: the aligned moras, and the
\* leading silence for the first chunk, the trailing one for the last
ChunkDuration(item, i) ==
    LET aligned == build_mora_list_with_text_mapping(item.text, item.query.accentPhrases)
    IN  calculate_chunk_precise_duration(Flatten(Chunks(item)[i]), item.text,
                                         aligned.mora_list, aligned.index)
        + (IF i = 1 THEN Get(item.query.prePhonemeLength, DefaultPre) ELSE 0)
        + (IF i = Len(Chunks(item))
           THEN Get(item.query.postPhonemeLength, DefaultPostNsg) ELSE 0)

\* the keys among the first n of the ordering list that Pass 1 does not skip
Handled(n) == SelectSeq(SubSeq(audio_keys, 1, n), LAMBDA k : NsgProcessed(audio_items, k))

\* a chunk of a handled record missed the alignment
MissAt(n) ==
    \E j \in 1..Len(Handled(n)) :
        LET item == audio_items[Handled(n)[j]]
        IN  \E i \in 1..Len(Chunks(item)) : AlignmentMiss(Flatten(Chunks(item)[i]), item)

\* the aligner returns 0 for every chunk that missed, and Pass 1 went on: it
\* holds one cue for every chunk of a handled record whose duration is not 0
MissGivesZeroAndPass1GoesOn ==
    (prog = "nsg" /\ pc \in {"pass1", "pass3", "done"}) =>
        LET ks == Handled(key_i - 1)
        IN  /\ \A j \in 1..Len(ks) :
                   LET item == audio_items[ks[j]]
                       aligned == build_mora_list_with_text_mapping(
                                      item.text, item.query.accentPhrases)
                   IN  \A i \in 1..Len(Chunks(item)) :
                           AlignmentMiss(Flatten(Chunks(item)[i]), item) =>
                               calculate_chunk_precise_duration(
                                   Flatten(Chunks(item)[i]), item.text,
                                   aligned.mora_list, aligned.index) = 0
            /\ Len(all_subtitles) =
                   SumSeq([j \in 1..Len(ks) |->
                              Cardinality({i \in 1..Len(Chunks(audio_items[ks[j]])) :
                                              ChunkDuration(audio_items[ks[j]], i) # 0})])

\* runs of nsg on well-typed projects whose records are plain, blank, or lose
\* a blank of their text in the lines
InitNsg ==
    /\ prog = "nsg"
    /\ tagger \in Taggers
    /\ max_chars = 3 /\ max_lines \in {1, 2}
    /\ keys_type = "list" /\ items_type = "dict"
    /\ audio_keys \in SeqsUpTo(Keys, MaxKeys)
    /\ audio_items \in UNION {[D -> {Item(<<"k", "k">>, RawQuery(OnePhrase, Num(100), None)),
                                     Item(<<"k", "k", ".", " ", "k">>,
                                          RawQuery(TwoPhrases, Num(100), Num(100))),
                                     Item(<<" ">>, RawQuery(OnePhrase, Num(100), None))}] :
                               D \in SUBSET Keys}
    /\ item_order = FileOrder(DOMAIN audio_items)
    /\ key_i = 0
    /\ all_subtitles = <<>> /\ global_start_time = 0
    /\ srt_entries = <<>> /\ current_time = 0
    /\ pc = "start"
    /\ IdleSeg /\ IdleDur /\ IdleFmt /\ IdleAlign /\ IdleSplit /\ IdleRepeat

NextNsg == NsgStart \/ NsgPass1 \/ NsgPass2 \/ NsgPass3

\* a step of the function: it moves to its next position or to the next key
\* (every step of NextNsg does, and nothing else does)
NsgMoves ==
    /\ pc \in {"start", "pass1", "pass3"}
    /\ pc' \in {"aborted", "pass1", "pass3", "done"}
    /\ key_i' \in {key_i, key_i + 1}
    /\ <<pc', key_i'>> # <<pc, key_i>>

\* the interpreter runs the function to its end: while it has not returned,
\* its next step is taken
SpecNsgFair == InitNsg /\ [][NextNsg]_vars /\ WF_<<pc, key_i>>(NsgMoves)

\* C14: an alignment miss does not stop the run.  calculate_chunk_precise_duration
\* returns 0 when the chunk text is not in the text of the record or an end of
\* it has no entry in the position index; Pass 1 goes on with the other chunks
\* and records; and a run that entered Pass 1 reaches the written file.
C14_AlignmentMissNeverStops ==
    /\ [](MissGivesZeroAndPass1GoesOn)
    /\ (prog = "nsg" /\ pc = "pass1") ~> (pc = "done")

\* a finished run in which a chunk missed the alignment and a cue was still
\* written for a record after the one of the miss
C14_Witness ==
    /\ prog = "nsg" /\ pc = "done"
    /\ \E n \in 1..(Len(audio_keys) - 1) :
          /\ MissAt(n)
          /\ NsgProcessed(audio_items, audio_keys[n + 1])
          /\ Len(srt_entries) > 1


\* the keys of a list that have a record whose text is not blank
NonBlankKeys(ks) == SelectSeq(Present(ks), LAMBDA k : Strip(audio_items[k].text) # <<>>)

\* C15 (as claimed): a record whose text is empty or blank is skipped by every
\* assembler: after any number of iterations the cues and the cursor are those
\* of the same loop run over the keys handled so far with the keys of blank
\* records left out.
C15_BlankTextSkipped ==
    LET seen(ks) == NonBlankKeys(SubSeq(ks, 1, key_i - 1))
    IN  /\ (prog = "nsg" /\ pc = "pass1") =>
               <<all_subtitles, global_start_time>> = NsgFold(seen(audio_keys))
        /\ (prog = "gen" /\ pc \in {"loop", "raised", "done"}) =>
               <<srt_entries, current_time>> = GenFold(seen(audio_keys))
        /\ (prog = "emo" /\ pc \in {"loop", "raised", "done"}) =>
               <<srt_entries, current_time>> = EmoFold(seen(EmoKeys))


\* the loop of convert_vvproj_to_srt (voicevox-srt.py) over a list of keys that
\* all have a record: <<cues, cursor>>
RECURSIVE OrigFold(_)
OrigFold(ks) ==
    IF ks = <<>> THEN <<<<>>, 0>>
    ELSE LET prev == OrigFold(SubSeq(ks, 1, Len(ks) - 1))
             item == audio_items[ks[Len(ks)]]
         IN  <<Append(prev[1], OrigCue(item, Len(ks) - 1, prev[2])),
               prev[2] + calculate_audio_duration(item.query)>>

\* C16 (as claimed): the ordering list is authoritative in every entry point.
\* At every point of a run the cues and the cursor are those of the program's
\* loop run over a prefix of the ordering list, so cues come in list order and
\* a record whose key is not in the list adds no cue and moves no cursor.
C16_OrderingListAuthoritative ==
    LET seen == Present(SubSeq(audio_keys, 1, key_i - 1))
    IN  /\ (prog = "nsg" /\ pc = "pass1") =>
               <<all_subtitles, global_start_time>> = NsgFold(seen)
        /\ (prog = "gen" /\ pc \in {"loop", "raised", "done"}) =>
               <<srt_entries, current_time>> = GenFold(seen)
        /\ (prog = "emo" /\ pc \in {"loop", "raised", "done"}) =>
               \E n \in 0..Len(audio_keys) :
                   <<srt_entries, current_time>>
                       = EmoFold(Present(SubSeq(audio_keys, 1, n)))
        /\ (prog = "orig" /\ pc \in {"loop", "done"}) =>
               \E n \in 0..Len(audio_keys) :
                   <<srt_entries, global_start_time>>
                       = OrigFold(Present(SubSeq(audio_keys, 1, n)))


-----------------------------------------------------------------------------
(* The timecode formatters on times of a resolution of 0.1 ms *)

\* format_srt_time of a time of x = n/d milliseconds: the hour, minute and
\* second fields are cut off, the millisecond field is the fraction of the
\* second times 1000, rounded (1000 when it rounds up to a full second)
FormatSrtTimeMs(x) ==
    LET whole == x[1] \div x[2]
    IN  <<whole \div 3600000, (whole % 3600000) \div 60000, (whole % 60000) \div 1000,
          NpRound(x[1] % (1000 * x[2]), x[2])>>

\* the times the formatters are applied to, in tenths of a millisecond: the
\* hour, minute and second fields at their ends and a fraction of the second
\* near 0, near 1/2 ms and near 1 s.  Half-way cases and whole milliseconds
\* other than 0 are left out: on them the result depends on the binary
\* representation of the float.
FmtHours == {0, 1}
FmtMinutes == {0, 59}
FmtSeconds == {0, 59}
FmtFractions == {0, 1, 4, 6, 5004, 9994, 9996, 9999}
FmtTimes ==
    {((h * 60 + m) * 60 + s) * 10000 + f :
        h \in FmtHours, m \in FmtMinutes, s \in FmtSeconds, f \in FmtFractions}

InitFmt ==
    /\ tagger = "none" /\ max_chars = MAX_CHARS /\ max_lines = MAX_LINES
    /\ pc = "start"
    /\ time_in \in FmtTimes
    /\ timecode = <<>>
    /\ IdleSeg /\ IdleDur /\ IdleRun /\ IdleAlign /\ IdleSplit /\ IdleRepeat

\* nsg and orig: format_srt_time(time_in_seconds)
FormatSrtTime ==
    /\ pc = "start" /\ IdleRun
    /\ timecode' = FormatSrtTimeMs(<<time_in, 10>>)
    /\ pc' = "format_srt_time"
    /\ UNCHANGED <<tagger, max_chars, max_lines, time_in>>
    /\ UNCHANGED segVars /\ UNCHANGED durVars /\ UNCHANGED runVars
    /\ UNCHANGED alignVars /\ UNCHANGED splitVars /\ UNCHANGED repeatVars

\* gen: format_time(seconds)
FormatTime ==
    /\ pc = "start" /\ IdleRun
    /\ timecode' = FormatTimeMs(<<time_in, 10>>)
    /\ pc' = "format_time"
    /\ UNCHANGED <<tagger, max_chars, max_lines, time_in>>
    /\ UNCHANGED segVars /\ UNCHANGED durVars /\ UNCHANGED runVars
    /\ UNCHANGED alignVars /\ UNCHANGED splitVars /\ UNCHANGED repeatVars

\* emo: _seconds_to_srt_time(seconds)
SecondsToSrtTime ==
    /\ pc = "start" /\ IdleRun
    /\ timecode' = SecondsToSrtTimeMs(<<time_in, 10>>)
    /\ pc' = "_seconds_to_srt_time"
    /\ UNCHANGED <<tagger, max_chars, max_lines, time_in>>
    /\ UNCHANGED segVars /\ UNCHANGED durVars /\ UNCHANGED runVars
    /\ UNCHANGED alignVars /\ UNCHANGED splitVars /\ UNCHANGED repeatVars

NextFmt == FormatSrtTime \/ FormatTime \/ SecondsToSrtTime

SpecFmt == InitFmt /\ [][NextFmt]_vars

\* on a whole number of milliseconds format_srt_time is FormatSrtTimeMs
FormatSrtTimeAgrees ==
    pc = "start" /\ time_in % 10 = 0
        => format_srt_time(time_in \div 10) = FormatSrtTimeMs(<<time_in, 10>>)

\* C17 (as claimed): every formatter returns HH:MM:SS,mmm with minutes and
\* seconds in 00..59 and the millisecond field in 000..999, denoting a time
\* within 1 ms of the time given.
C17_TimecodeWellFormed ==
    timecode # <<>> =>
        /\ timecode[2] \in 0..59
        /\ timecode[3] \in 0..59
        /\ timecode[4] \in 0..999
        /\ ToMs(timecode) * 10 - time_in \in -10..10


\* C18: the indices of the cues of the file are 1, 2, ..., N in emission
\* order, N being the number of cues emitted: the i-th entry carries index i
\* in every program at every point of the run, and nsg writes one entry for
\* each cue Pass 1 kept, so skipped utterances and chunks dropped for a zero
\* duration use up no index.
C18_DenseIndices ==
    /\ \A i \in 1..Len(srt_entries) : srt_entries[i].index = i
    /\ (prog = "nsg" /\ pc = "done") => Len(srt_entries) = Len(all_subtitles)

\* a finished run of nsg that skipped a listed key (no record, or a blank
\* text), then handled a record one of whose chunks was dropped for a zero
\* duration, and wrote two cues or more
C18_Witness ==
    /\ prog = "nsg" /\ pc = "done" /\ items_type = "dict"
    /\ Len(srt_entries) > 1
    /\ \E m, n \in 1..Len(audio_keys) :
          /\ m < n
          /\ \/ audio_keys[m] \notin DOMAIN audio_items
             \/ Strip(audio_items[audio_keys[m]].text) = <<>>
          /\ NsgProcessed(audio_items, audio_keys[n])
          /\ \E i \in 1..Len(Chunks(audio_items[audio_keys[n]])) :
                 ChunkDuration(audio_items[audio_keys[n]], i) = 0


-----------------------------------------------------------------------------
(* convert_vvproj_to_audioquery followed by calculate_accurate_duration on  *)
(* queries whose numeric fields are numbers, absent or JSON null            *)

\* a numeric field of the file: a number, absent, or null
Lengths(v) == {Num(v), None, Null}
Scales(s) == {s, None, Null}

\* the "query" objects: one accent phrase of one mora, with or without a
\* pause mora
ConvQueries ==
    {[accentPhrases |->
          <<[moras |-> <<[vowel |-> "a", vowelLength |-> vl, consonantLength |-> cl,
                          pitch |-> p]>>,
             pauseMora |-> pm]>>,
      speedScale |-> sp, pitchScale |-> ps, intonationScale |-> is,
      prePhonemeLength |-> pre, postPhonemeLength |-> post,
      pauseLength |-> None, pauseLengthScale |-> pls] :
        vl \in Lengths(100), cl \in Lengths(48), p \in Lengths(5),
        pm \in {None, RawPause(300), <<[vowel |-> PauseVowel, vowelLength |-> Null]>>},
        sp \in Scales(<<2, 1>>), ps \in {None, Null}, is \in {None, Null},
        pre \in Lengths(200), post \in Lengths(200), pls \in Scales(<<1, 2>>)}

InitConv ==
    /\ tagger = "none" /\ max_chars = MAX_CHARS /\ max_lines = MAX_LINES
    /\ pc = "convert"
    /\ query_data \in ConvQueries
    /\ query = <<>> /\ processed_moras = <<>> /\ frame_per_mora = <<>> /\ duration = 0
    /\ IdleSeg /\ IdleRun /\ IdleFmt /\ IdleAlign /\ IdleSplit /\ IdleRepeat

\* generate_srt: audio_query = self.convert_vvproj_to_audioquery(query)
ConvertVvprojToAudioquery ==
    /\ pc = "convert"
    /\ query' = convert_vvproj_to_audioquery(query_data)
    /\ pc' = "start"
    /\ UNCHANGED <<tagger, max_chars, max_lines, query_data,
                   processed_moras, frame_per_mora, duration>>
    /\ UNCHANGED segVars /\ UNCHANGED runVars /\ UNCHANGED fmtVars /\ UNCHANGED alignVars /\ UNCHANGED splitVars /\ UNCHANGED repeatVars

NextConv == ConvertVvprojToAudioquery \/ CalculateAccurateDuration

SpecConv == InitConv /\ [][NextConv]_vars

\* the query with 0 written for every length and pitch that is absent or
\* null, and 1 for every such scale
LengthOrZero(v) == IF v \in {None, Null} THEN Num(0) ELSE v
ScaleOrOne(s) == IF s \in {None, Null} THEN <<1, 1>> ELSE s
Defaulted(q) ==
    [q EXCEPT
        !.accentPhrases =
            [i \in 1..Len(q.accentPhrases) |->
                [moras |->
                     [j \in 1..Len(q.accentPhrases[i].moras) |->
                         [q.accentPhrases[i].moras[j] EXCEPT
                             !.vowelLength = LengthOrZero(@),
                             !.consonantLength = LengthOrZero(@),
                             !.pitch = LengthOrZero(@)]],
                 pauseMora |->
                     IF q.accentPhrases[i].pauseMora = None THEN None
                     ELSE <<[q.accentPhrases[i].pauseMora[1] EXCEPT
                                !.vowelLength = LengthOrZero(@)]>>]],
        !.speedScale = ScaleOrOne(@),
        !.pauseLengthScale = ScaleOrOne(@),
        !.prePhonemeLength = LengthOrZero(@),
        !.postPhonemeLength = LengthOrZero(@)]

\* C19 (as claimed): the calculator never rejects a query: whatever numeric
\* field is absent or null, the conversion followed by the calculation raises
\* nothing and returns the duration computed with 0 for that length and 1 for
\* that scale.
C19_NeverRejects ==
    /\ pc # "raised"
    /\ pc = "done" =>
           duration = calculate_accurate_duration(
                          convert_vvproj_to_audioquery(Defaulted(query_data)))


\* the sum of calculate_audio_duration over the first j - 1 records of ks
TotalBefore(ks, j) ==
    SumSeq([i \in 1..(j - 1) |-> calculate_audio_duration(audio_items[ks[i]].query)])

\* the number of cues Pass 1 emits for a record
CueCount(item) == Len(Pass1Cues(item, 0, max_chars, max_lines))

\* the number of cues Pass 1 emits for the first j - 1 records of ks
CuesBefore(ks, j) == SumSeq([i \in 1..(j - 1) |-> CueCount(audio_items[ks[i]])])

\* the sum of the durations of the cues Pass 1 emits for a record
ChunkSum(item) ==
    SumSeq([i \in 1..Len(Chunks(item)) |-> ChunkDuration(item, i)])

\* the cues of two utterances of one cue each, of 2.0 s and 3.0 s, as
\* <<start, end>> after Pass 2
TwoUtterances ==
    LET a == Item(<<"k", "k">>,
                  RawQuery(<<RawPhrase(<<RawMora(1000), RawMora(900)>>, None)>>,
                           Num(100), Num(0)))
        b == Item(<<"k", "k">>,
                  RawQuery(<<RawPhrase(<<RawMora(1000), RawMora(1900)>>, None)>>,
                           Num(100), Num(0)))
        cues == Pass1Cues(a, 0, 3, 1) \o Pass1Cues(b, Pass1Advance(a), 3, 1)
        subs == Pass2(cues, Pass1Advance(a) + Pass1Advance(b))
    IN  [i \in 1..Len(subs) |-> <<subs[i].start_time, subs[i].end_time>>]

\* C20: in Pass 1 the utterance-level cursor advances by the total duration
\* of the utterance.  After any number of iterations the cursor is the sum of
\* calculate_audio_duration over the utterances handled so far, and the first
\* cue of each of them starts at the sum over those handled before it,
\* whatever their chunk durations were; two utterances of one cue each, of
\* 2.0 s and 3.0 s, give the cues [0, 2000) and [2000, 5000).
C20_CursorAdvancesByTotalDuration ==
    /\ (prog = "nsg" /\ pc \in {"pass1", "pass3", "done"}) =>
           LET ks == Handled(key_i - 1)
           IN  /\ global_start_time = TotalBefore(ks, Len(ks) + 1)
               /\ \A j \in 1..Len(ks) :
                      CueCount(audio_items[ks[j]]) > 0 =>
                          all_subtitles[CuesBefore(ks, j) + 1].start_time = TotalBefore(ks, j)
    /\ TwoUtterances = <<<<0, 2000>>, <<2000, 5000>>>>

\* a finished run of nsg in which the chunk durations of a handled utterance
\* do not add up to its total duration, and a later utterance has a cue
C20_Witness ==
    /\ prog = "nsg" /\ pc = "done"
    /\ LET ks == Handled(Len(audio_keys))
       IN  \E i, j \in 1..Len(ks) :
               /\ i < j
               /\ ChunkSum(audio_items[ks[i]]) # calculate_audio_duration(audio_items[ks[i]].query)
               /\ CueCount(audio_items[ks[j]]) > 0


\* the chunks of the records of ks, in order
RECURSIVE AllChunks(_)
AllChunks(ks) ==
    IF ks = <<>> THEN <<>>
    ELSE AllChunks(SubSeq(ks, 1, Len(ks) - 1)) \o Chunks(audio_items[ks[Len(ks)]])

\* C21 (as claimed): Pass 1 emits exactly one cue for every chunk of every
\* utterance it does not skip, in chunk order, with the lines of that chunk;
\* no chunk is left out, a chunk of zero duration included.
C21_OneCuePerChunk ==
    (prog = "nsg" /\ pc \in {"pass1", "pass3", "done"}) =>
        [i \in 1..Len(all_subtitles) |-> all_subtitles[i].lines]
            = AllChunks(Handled(key_i - 1))


\* the chunks of a record Pass 1 emits a cue for, as indices into Chunks(item)
EmittedIdx(item) ==
    SelectSeq([i \in 1..Len(Chunks(item)) |-> i], LAMBDA i : ChunkDuration(item, i) # 0)

\* the number of cues of the first j - 1 records of ks
EmittedBefore(ks, j) ==
    SumSeq([i \in 1..(j - 1) |-> Len(EmittedIdx(audio_items[ks[i]]))])

\* C22: within one utterance prePhonemeLength is added to the first chunk
\* only and postPhonemeLength to the last chunk only (a single chunk gets
\* both, a middle chunk neither), and the provisional start of a chunk is the
\* start of the utterance plus the durations of the chunks emitted before it.
C22_SilencesOnFirstAndLastChunk ==
    (prog = "nsg" /\ pc \in {"pass1", "pass3", "done"}) =>
        LET ks == Handled(key_i - 1)
        IN  \A j \in 1..Len(ks) :
                LET item == audio_items[ks[j]]
                    chunks == Chunks(item)
                    aligned == build_mora_list_with_text_mapping(
                                   item.text, item.query.accentPhrases)
                    pre == Get(item.query.prePhonemeLength, DefaultPre)
                    post == Get(item.query.postPhonemeLength, DefaultPostNsg)
                    last == Len(chunks)
                    expected(i) ==
                        calculate_chunk_precise_duration(
                            Flatten(chunks[i]), item.text, aligned.mora_list, aligned.index)
                        + (IF i = 1 THEN pre ELSE 0)
                        + (IF i = last THEN post ELSE 0)
                    E == SelectSeq([i \in 1..last |-> i], LAMBDA i : expected(i) # 0)
                    base == EmittedBefore(ks, j)
                    start == TotalBefore(ks, j)
                IN  \A n \in 1..Len(E) :
                        LET cue == all_subtitles[base + n]
                        IN  /\ cue.duration = expected(E[n])
                            /\ cue.start_time =
                                   IF n = 1 THEN start
                                   ELSE all_subtitles[base + n - 1].start_time
                                        + all_subtitles[base + n - 1].duration
                            /\ pc = "pass1" => cue.end_time = cue.start_time + cue.duration

\* Pass 1 has handled an utterance of one chunk and one of three chunks or
\* more whose middle chunk has a cue, both with non-zero silences
C22_Witness ==
    /\ prog = "nsg" /\ pc = "pass1"
    /\ LET ks == Handled(key_i - 1)
           silent(item) == /\ Get(item.query.prePhonemeLength, DefaultPre) > 0
                           /\ Get(item.query.postPhonemeLength, DefaultPostNsg) > 0
       IN  \E i, j \in 1..Len(ks) :
               /\ Len(Chunks(audio_items[ks[i]])) = 1 /\ silent(audio_items[ks[i]])
               /\ Len(Chunks(audio_items[ks[j]])) >= 3 /\ silent(audio_items[ks[j]])
               /\ \E n \in 2..Len(EmittedIdx(audio_items[ks[j]])) :
                      EmittedIdx(audio_items[ks[j]])[n] < Len(Chunks(audio_items[ks[j]]))


-----------------------------------------------------------------------------
(* build_mora_list_with_text_mapping and calculate_chunk_precise_duration   *)
(* on short texts and phoneme data                                          *)

MaxTextLen == 3
MaxUnits == 2

\* the texts: characters that are a pause mark, and characters that are not
AlignTexts == SeqsUpTo({"k", ".", ","}, MaxTextLen)

\* accent phrases of up to MaxUnits moras, with or without a pause mora
AlignPhrases ==
    {RawPhrase(ms, pm) : ms \in SeqsUpTo({RawMora(10), RawMoraC(30, 70)}, MaxUnits),
                         pm \in {None, RawPause(300)}}

\* the ways to cut a text into consecutive non-empty pieces
RECURSIVE Cuts(_)
Cuts(t) ==
    IF t = <<>> THEN {<<>>}
    ELSE UNION {{<<SubSeq(t, 1, n)>> \o rest : rest \in Cuts(SubSeq(t, n + 1, Len(t)))} :
                   n \in 1..Len(t)}

\* the chunk lists looked up: every way to cut the text, and a chunk that is
\* no piece of the text
ChunkLists(t) == (Cuts(t) \ {<<>>}) \cup {<<<<"x">>>>}

InitAlign ==
    /\ tagger = "none" /\ max_chars = MAX_CHARS /\ max_lines = MAX_LINES
    /\ pc = "build"
    /\ utt_text \in AlignTexts
    /\ utt_phrases \in SeqsUpTo(AlignPhrases, 2)
    /\ unit_list = <<>> /\ position_index = <<>> /\ chunk_texts = <<>> /\ chunk_durations = <<>>
    /\ IdleSeg /\ IdleDur /\ IdleRun /\ IdleFmt /\ IdleSplit /\ IdleRepeat

\* mora_list, text_to_mora_indices = build_mora_list_with_text_mapping(text, accent_phrases)
BuildMoraListWithTextMapping ==
    /\ pc = "build"
    /\ LET aligned == build_mora_list_with_text_mapping(utt_text, utt_phrases)
       IN  unit_list' = aligned.mora_list /\ position_index' = aligned.index
    /\ pc' = "built"
    /\ UNCHANGED <<tagger, max_chars, max_lines, utt_text, utt_phrases, chunk_texts, chunk_durations>>
    /\ UNCHANGED segVars /\ UNCHANGED durVars /\ UNCHANGED runVars /\ UNCHANGED fmtVars
    /\ UNCHANGED splitVars /\ UNCHANGED repeatVars

\* Pass 1: calculate_chunk_precise_duration(chunk_text, text, mora_list,
\* text_to_mora_indices) for each chunk of the utterance
CalculateChunkPreciseDuration ==
    /\ pc = "built"
    /\ \E chunks \in ChunkLists(utt_text) :
          /\ chunk_texts' = chunks
          /\ chunk_durations' =
                 [i \in 1..Len(chunks) |->
                     calculate_chunk_precise_duration(
                         chunks[i], utt_text, unit_list, position_index)]
    /\ pc' = "measured"
    /\ UNCHANGED <<tagger, max_chars, max_lines, utt_text, utt_phrases,
                   unit_list, position_index>>
    /\ UNCHANGED segVars /\ UNCHANGED durVars /\ UNCHANGED runVars /\ UNCHANGED fmtVars
    /\ UNCHANGED splitVars /\ UNCHANGED repeatVars

NextAlign == BuildMoraListWithTextMapping \/ CalculateChunkPreciseDuration

SpecAlign == InitAlign /\ [][NextAlign]_vars

\* the kinds of the units of a phrase list, in order: "mora" or "pause"
RECURSIVE UnitKinds(_)
UnitKinds(phrases) ==
    IF phrases = <<>> THEN <<>>
    ELSE [i \in 1..Len(Head(phrases).moras) |-> "mora"]
             \o (IF Head(phrases).pauseMora # None THEN <<"pause">> ELSE <<>>)
             \o UnitKinds(Tail(phrases))

\* C23: the index built by build_mora_list_with_text_mapping has as keys a
\* prefix 0..k-1 of the offsets of the text and strictly increasing unit
\* positions as values; the unit list holds every mora and every pause mora;
\* a mora is indexed exactly when the cursor (the number of offsets indexed
\* before it) is inside the text, a pause mora exactly when moreover the
\* character at the cursor is one of the pause marks, and the unit indexed
\* then is recorded at the cursor.
C23_IndexIsIncreasingPrefix ==
    pc \in {"built", "measured"} =>
        LET kinds == UnitKinds(utt_phrases)
            D == DOMAIN position_index
            cursor(u) == Cardinality({o \in D : position_index[o] < u})
        IN  /\ D = 0..(Cardinality(D) - 1)
            /\ Cardinality(D) <= Len(utt_text)
            /\ \A a, b \in D : a < b => position_index[a] < position_index[b]
            /\ Len(unit_list) = Len(kinds)
            /\ \A u \in 0..(Len(kinds) - 1) :
                   LET c == cursor(u)
                       consumes == /\ c < Len(utt_text)
                                   /\ kinds[u + 1] = "pause" => utt_text[c + 1] \in PauseMarks
                   IN  IF consumes THEN c \in D /\ position_index[c] = u
                       ELSE \A o \in D : position_index[o] # u

\* a text whose index stops before its end at a pause mora that consumed no
\* character, after a pause mora that consumed one
C23_Witness ==
    /\ pc = "built"
    /\ LET kinds == UnitKinds(utt_phrases)
       IN  /\ \E o \in DOMAIN position_index : kinds[position_index[o] + 1] = "pause"
           /\ \E u \in 1..Len(kinds) :
                  /\ kinds[u] = "pause"
                  /\ \A o \in DOMAIN position_index : position_index[o] # u - 1
           /\ Cardinality(DOMAIN position_index) < Len(utt_text)


\* the unit positions calculate_chunk_precise_duration sums for a chunk text:
\* from the unit of the first offset of its first occurrence to the unit of
\* its last offset; empty if the text is not found or an offset has no unit
UnitRange(chunk_text) ==
    LET o == Find(utt_text, chunk_text)
        e == o + Len(chunk_text) - 1
    IN  IF o = -1 \/ o \notin DOMAIN position_index \/ e \notin DOMAIN position_index
        THEN {}
        ELSE position_index[o]..position_index[e]

\* the chunk was found and both ends of its span have a unit
Aligned(chunk_text) ==
    LET o == Find(utt_text, chunk_text)
    IN  /\ o # -1
        /\ o \in DOMAIN position_index
        /\ o + Len(chunk_text) - 1 \in DOMAIN position_index

\* C24 (as claimed): for a chunk text found in the text the aligner returns
\* the sum of the durations of the units from the unit of the span's first
\* offset to the unit of its last, at the first occurrence; and for chunks
\* with pairwise distinct texts that partition the text the unit ranges are
\* disjoint, so the durations add up to at most the sum over all units.
C24_ChunkRangesDisjoint ==
    pc = "measured" =>
        LET n == Len(chunk_texts)
            distinct == \A i, j \in 1..n : i # j => chunk_texts[i] # chunk_texts[j]
        IN  /\ \A i \in 1..n :
                   Aligned(chunk_texts[i]) =>
                       chunk_durations[i] =
                           SumSeq([u \in 1..Len(unit_list) |->
                                      IF u - 1 \in UnitRange(chunk_texts[i])
                                      THEN unit_list[u] ELSE 0])
            /\ (distinct /\ Flatten(chunk_texts) = utt_text) =>
                   /\ \A i, j \in 1..n :
                          i # j => UnitRange(chunk_texts[i]) \cap UnitRange(chunk_texts[j]) = {}
                   /\ SumSeq(chunk_durations) <= SumSeq(unit_list)


----------------------------------------------------------------------------
(* The contribution of one unit to the duration *)

\* the units the pipeline works on: the leading silence, the moras of the
\* accent phrases with their pause moras, the trailing silence
UnitsOf(q) ==
    <<_generate_silence_mora(q.prePhonemeLength)>> \o FlattenPhrases(q.accent_phrases)
        \o <<_generate_silence_mora(q.postPhonemeLength)>>

\* the frames of a unit u as the order silence padding, pause override, pause
\* scale, speed scale gives them
UnitFrames(u, q) ==
    LET L == IF q.pauseLength # None THEN q.pauseLength ELSE u.vowel_length
    IN  IF u.vowel = "pau"
        THEN _to_frame(RatDiv(RatMul(L, q.pauseLengthScale), q.speedScale))
        ELSE _to_frame(RatDiv(u.vowel_length, q.speedScale))
                 + (IF u.consonant_length # None
                    THEN _to_frame(RatDiv(u.consonant_length, q.speedScale)) ELSE 0)

\* C25: a call of calculate_accurate_duration that returns counts, for every
\* unit with vowel "pau", to_frame(L * pauseLengthScale / speedScale) frames
\* with L the configured pauseLength or else the unit's own vowel length, and
\* for the two silence units and every ordinary unit to_frame(length /
\* speedScale) frames for each of its lengths; the duration is their sum
C25_PauseTransformsOrder ==
    [][(pc = "start" /\ pc' = "done") =>
          LET units == UnitsOf(query)
          IN  /\ frame_per_mora' = [i \in 1..Len(units) |-> UnitFrames(units[i], query)]
              /\ duration' = SumSeq(frame_per_mora')]_vars

\* a call on a query with a pause of 300 ms, a configured pauseLength of 500 ms,
\* a pause scale of 1/2 and a speed of 3/2 has returned: the pause counts
\* to_frame(500 * 1/2 / (3/2)) = 16 frames, the trailing silence of 1000 ms
\* to_frame(1000 / (3/2)) = 62 frames
C25_Witness ==
    /\ pc = "done"
    /\ query.pauseLength = Rat(500) /\ query.pauseLengthScale = <<1, 2>>
    /\ query.speedScale = <<3, 2>> /\ query.postPhonemeLength = Rat(1000)
    /\ Len(processed_moras) = 4
    /\ processed_moras[3].vowel = "pau"
    /\ frame_per_mora[3] = 16
    /\ frame_per_mora[4] = 62


----------------------------------------------------------------------------
(* split_long_segment, one iteration of its while loop at a time            *)

MaxPieces == 6

\* Python s[:n] and s[n:] for any integer n: a negative n counts from the end
PySliceTo(s, n) == IF n >= 0 THEN Take(s, n) ELSE Take(s, IF Len(s) + n > 0 THEN Len(s) + n ELSE 0)
PySliceFrom(s, n) == IF n >= 0 THEN Drop(s, n) ELSE Drop(s, IF Len(s) + n > 0 THEN Len(s) + n ELSE 0)

\* the segments: plain characters, the two marks and a space
SplitSegments == SeqsUpTo({"k", ",", ".", " "}, MaxLen)

\* result = [], remaining = segment
InitSplit ==
    /\ tagger = "none" /\ max_lines = MAX_LINES
    /\ max_chars \in -1..MaxCharsBound
    /\ text \in SplitSegments
    /\ remaining_text = text /\ result_pieces = <<>>
    /\ pc = "while"
    /\ lines = <<>> /\ line_chunks = <<>> /\ segments = <<>>
    /\ IdleDur /\ IdleRun /\ IdleFmt /\ IdleAlign /\ IdleRepeat

\* one pass through the body of `while len(remaining) > max_chars` (the list
\* of pieces is followed up to MaxPieces entries)
SplitLongIteration ==
    /\ pc = "while"
    /\ Len(remaining_text) > max_chars
    /\ Len(result_pieces) < MaxPieces
    /\ LET chunk == PySliceTo(remaining_text, max_chars)
           found == LastPunct(chunk)
           split_index == IF found = -1 \/ 2 * found < max_chars THEN max_chars ELSE found
           segment_piece == Strip(PySliceTo(remaining_text, split_index))
           rest == PySliceFrom(remaining_text, split_index)
           j == PunctRun(rest)
       IN  /\ result_pieces' = Append(result_pieces, segment_piece \o Take(rest, j))
           /\ remaining_text' = Drop(rest, j)
    /\ UNCHANGED <<tagger, max_chars, max_lines, pc>>
    /\ UNCHANGED segVars /\ UNCHANGED durVars /\ UNCHANGED runVars /\ UNCHANGED fmtVars
    /\ UNCHANGED alignVars /\ UNCHANGED repeatVars

\* the loop is left: `if remaining: result.append(remaining.strip())`, return
SplitLongReturn ==
    /\ pc = "while"
    /\ ~(Len(remaining_text) > max_chars)
    /\ result_pieces' = IF remaining_text # <<>>
                        THEN Append(result_pieces, Strip(remaining_text)) ELSE result_pieces
    /\ pc' = "returned"
    /\ UNCHANGED <<tagger, max_chars, max_lines, remaining_text>>
    /\ UNCHANGED segVars /\ UNCHANGED durVars /\ UNCHANGED runVars /\ UNCHANGED fmtVars
    /\ UNCHANGED alignVars /\ UNCHANGED repeatVars

NextSplit == SplitLongIteration \/ SplitLongReturn

SpecSplit == InitSplit /\ [][NextSplit]_vars

\* C26: of the pieces split_long_segment returns for a segment longer than
\* max_chars (max_chars at least 1), none but the first begins with one of
\* the marks "、" and "。": the cut is made after the rightmost mark among the
\* first max_chars characters, or at max_chars when there is none or the
\* mark lies in the first half, and a run of marks at the start of the new
\* remainder is moved onto the piece just produced.
C26_NoPieceBeginsWithPunctuation ==
    (pc = "returned" /\ max_chars >= 1) =>
        \A i \in 2..Len(result_pieces) :
            result_pieces[i] # <<>> => result_pieces[i][1] \notin Punctuation

\* the loop computes what split_long_segment computes
SplitLongAgrees ==
    (pc = "returned" /\ max_chars >= 1) => result_pieces = split_long_segment(text, max_chars)


----------------------------------------------------------------------------
(* Short lines after adjust_line_breaks *)

\* C27: in the list smart_split_text returns (the result of
\* adjust_line_breaks) no line that follows another line has a trimmed
\* length below min_line_length characters.
C27_NoOrphanShortLine ==
    pc \in {"lines", "chunks", "done"} =>
        \A i \in 2..Len(lines) : Len(Strip(lines[i])) >= min_line_length


----------------------------------------------------------------------------
(* The segmenter without a tokenizer *)

\* C28: without a tokenizer (tagger is None) every line smart_split_text
\* returns is non-empty and has at most max_chars characters (max_chars at
\* least 1), the lines that adjust_line_breaks re-chunks with
\* token_based_split after a merge included.
C28_FallbackKeepsLineContract ==
    (pc \in {"lines", "chunks", "done"} /\ tagger = "none" /\ max_chars >= 1) =>
        \A i \in 1..Len(lines) : lines[i] # <<>> /\ Len(lines[i]) <= max_chars

\* the same lines with a tokenizer that yields one token per character: the
\* lines of merged pairs stay within max_chars when the text has no mark that
\* split_long_segment moves
CharTokenizerKeepsMergedLines ==
    (pc \in {"lines", "chunks", "done"} /\ tagger = "char" /\ max_chars >= 1
        /\ \A i \in 1..Len(text) : text[i] \notin Punctuation) =>
        \A i \in 1..Len(lines) : lines[i] # <<>> /\ Len(lines[i]) <= max_chars

\* the fallback on a text without the marks that split_long_segment moves
FallbackWithoutMarks ==
    (pc \in {"lines", "chunks", "done"} /\ tagger = "none" /\ max_chars >= 1
        /\ \A i \in 1..Len(text) : text[i] \notin Punctuation) =>
        \A i \in 1..Len(lines) : lines[i] # <<>> /\ Len(lines[i]) <= max_chars


----------------------------------------------------------------------------
(* Two duration calculations on the same AudioQuery object *)

\* a second call VOICEVOXOfficialCalculator.calculate_accurate_duration(query)
\* on the object the first call was given
CalculateAgain ==
    /\ pc = "done"
    /\ IF CalculateRaises(query)
       THEN /\ pc' = "raised"
            /\ UNCHANGED <<query, second_duration>>
       ELSE /\ second_duration' = calculate_accurate_duration(query)
            /\ query' = QueryAfterCall(query)
            /\ pc' = "again"
    /\ UNCHANGED <<tagger, max_chars, max_lines, query_data,
                   processed_moras, frame_per_mora, duration>>
    /\ UNCHANGED segVars /\ UNCHANGED runVars /\ UNCHANGED fmtVars /\ UNCHANGED alignVars
    /\ UNCHANGED splitVars

NextRepeat == CalculateAccurateDuration \/ CalculateAgain

SpecRepeat == InitDur /\ [][NextRepeat]_vars

\* C29: two calls of calculate_accurate_duration on the same AudioQuery
\* object return the same duration, whatever speedScale, pauseLength and
\* pauseLengthScale are.
C29_SecondCallSameDuration ==
    pc = "again" => second_duration = duration

\* with a speed scale of 1 and a pause scale of 1 the calls rewrite the
\* lengths with the values they had
UnitScalesRepeat ==
    (pc = "again" /\ query.speedScale = <<1, 1>> /\ query.pauseLengthScale = <<1, 1>>) =>
        second_duration = duration


----------------------------------------------------------------------------
(* Termination of split_long_segment *)

\* the interpreter keeps executing the loop: a step that can be taken is taken
SpecSplitFair == InitSplit /\ [][NextSplit]_vars /\ WF_vars(NextSplit)

\* the function returns
LoopReturns == <>(pc = "returned")

\* C30: for every segment and every integer max_chars, 0 and negative values
\* included, each iteration of the while loop of split_long_segment strictly
\* shortens the remainder, and the loop comes to an end and the function
\* returns.
C30_SegmentationTerminates ==
    /\ [][pc' = "while" => Len(remaining_text') < Len(remaining_text)]_vars
    /\ LoopReturns

\* with max_chars at least 1 every iteration shortens the remainder and the
\* function returns
ShortensWhenPositive ==
    [][(pc' = "while" /\ max_chars >= 1) => Len(remaining_text') < Len(remaining_text)]_vars

ReturnsWhenPositive == (max_chars >= 1) ~> (pc = "returned")

====
